---------------------------- MODULE Spec2Model ----------------------------
(***************************************************************************)
(* Jerk-limited smoothing of MoveIt 2 motion commands.                     *)
(*                                                                         *)
(*  - RuckigFilterPlugin  (online_signal_smoothing/src/ruckig_filter.cpp)  *)
(*    the per-cycle streaming smoother: initialize / doSmoothing / reset.  *)
(*  - RuckigSmoothing and TrackJointSmoothing                              *)
(*    (trajectory_processing/src/*_traj_smoothing.cpp)                     *)
(*    the batch smoothers: applySmoothing.                                 *)
(*                                                                         *)
(* Real numbers are modelled by integers; the code of the streaming        *)
(* smoother only copies and compares them, the batch smoothers compute     *)
(* in fixed point.  The external solvers (ruckig::Ruckig::update,          *)
(* trackjoint::TrajectoryGenerator) are nondeterministic choices among     *)
(* the outcomes their contracts allow.                                     *)
(***************************************************************************)
EXTENDS Integers, Sequences, FiniteSets, TLC

(***************************************************************************)
(* Bounds of the model.                                                    *)
(***************************************************************************)
\* number of active joints of the planning group (= num_joints)
NumJoints == 1
\* how many times initialize() may be called on one plugin object
MaxInitializeCalls == 2

(***************************************************************************)
(* Program constants.                                                      *)
(***************************************************************************)
\* ruckig_filter.cpp:50   inline constexpr double DEFAULT_JERK_BOUND = 300;
DEFAULT_JERK_BOUND == 300
\* ruckig_filter.cpp:166  joint_acceleration_bounds_.push_back(DBL_MAX);
DBL_MAX == 1000000

Joints == 1..NumJoints

ZeroVector(n) == [i \in 1..n |-> 0]

Abs(x) == IF x < 0 THEN -x ELSE x

(***************************************************************************)
(* Values the callers and the solver are drawn from.                       *)
(***************************************************************************)
KinematicState(p, v, a) == [position |-> p, velocity |-> v, acceleration |-> a]

\* per joint: at rest at 0; moving inside every limit of BoundSamples;
\* moving faster than every finite limit of BoundSamples
KinematicSamples ==
  { KinematicState(0, 0, 0), KinematicState(2, 1, -1),
    KinematicState(1, 3, 2) }

\* what a caller may hold in its three vectors, joint by joint
CallerVectors == [Joints -> KinematicSamples]

PositionsOf(ks)     == [j \in Joints |-> ks[j].position]
VelocitiesOf(ks)    == [j \in Joints |-> ks[j].velocity]
AccelerationsOf(ks) == [j \in Joints |-> ks[j].acceleration]

\* moveit::core::VariableBounds of one joint, as the robot model reports it
VariableBounds(vb, v, ab, a, jb, jk) ==
  [velocity_bounded_ |-> vb, max_velocity_ |-> v,
   acceleration_bounded_ |-> ab, max_acceleration_ |-> a,
   jerk_bounded_ |-> jb, max_jerk_ |-> jk]

AllBounded   == VariableBounds(TRUE, 1, TRUE, 1, TRUE, 1)
OnlyVelocity == VariableBounds(TRUE, 1, FALSE, 0, FALSE, 0)
NoVelocity   == VariableBounds(FALSE, 0, TRUE, 1, TRUE, 1)

\* robot models: the bounds of each active joint of the planning group.
\* Every joint fully bounded; joints with a velocity bound only alternating
\* with fully bounded ones; the last joint without a velocity bound.
RobotModels ==
  { [j \in Joints |-> AllBounded],
    [j \in Joints |-> IF j % 2 = 1 THEN OnlyVelocity ELSE AllBounded],
    [j \in Joints |-> IF j = NumJoints THEN NoVelocity ELSE AllBounded] }

(***************************************************************************)
(* ruckig::Result                                                          *)
(***************************************************************************)
Results ==
  { "Working", "Finished", "ErrorSynchronizationCalculation", "Error" }

VARIABLES
  \* ---- RuckigFilterPlugin object and its process --------------------
  pc,                          \* "constructed", "ready", "exited", "aborted"
  num_initialize_calls,        \* calls of initialize() so far
  robot_model_,
  num_joints_,
  have_initial_ruckig_output_,
  joint_velocity_bounds_,
  joint_acceleration_bounds_,
  joint_jerk_bounds_,
  ruckig_input_,
  ruckig_output_,
  ruckig_result,               \* status of the last ruckig_->update
  \* ---- the caller's side of the last call ---------------------------
  last_call,                   \* "none", "initialize", "doSmoothing", "reset"
  returned,                    \* "none" (no return), "true", "false"
  positions, velocities, accelerations,  \* the caller's Eigen vectors
  \* ---- history, for the properties only ------------------------------
  last_usable_output           \* what the latest usable step returned

filter_vars ==
  << pc, num_initialize_calls, robot_model_, num_joints_,
     have_initial_ruckig_output_, joint_velocity_bounds_,
     joint_acceleration_bounds_, joint_jerk_bounds_, ruckig_input_,
     ruckig_output_, ruckig_result, last_call, returned,
     positions, velocities, accelerations, last_usable_output >>

VARIABLES
  \* ---- one call of a batch smoother's applySmoothing -----------------
  smoother,                    \* "none", "ruckig", "trackjoint"
  at,                          \* position of the call in applySmoothing
  trajectory,                  \* the caller's RobotTrajectory (by reference)
  rclcpp_ok,                   \* rclcpp::ok()
  frame,                       \* the local variables of applySmoothing
  applySmoothing_returned,     \* "none", "true", "false"
  \* ---- history, for the properties only ------------------------------
  caller_trajectory,           \* the trajectory as the caller handed it in
  solver_invoked,              \* whether the solver or generator was run
  passes,                      \* passes over the segments begun so far
  error_in_pass,               \* a segment of this pass ended with Error
  shutdown_observed,           \* rclcpp::ok() was read and was false
  solver_history               \* what the solver answered so far, and the
                               \* status each pass ended with

batch_vars ==
  << smoother, at, trajectory, rclcpp_ok, frame, applySmoothing_returned,
     caller_trajectory, solver_invoked, passes, error_in_pass,
     shutdown_observed, solver_history >>

VARIABLES
  \* ---- history of the streaming smoother, kept for the feedback
  \* ---- properties only ----------------------------------------------
  supplied_state               \* the current state the latest initialize or
                               \* reset gave the solver input

vars == << filter_vars, batch_vars, supplied_state >>

(***************************************************************************)
(* ruckig::InputParameter / OutputParameter                                *)
(***************************************************************************)
InputParameter(n) ==
  [ current_position |-> ZeroVector(n), current_velocity |-> ZeroVector(n),
    current_acceleration |-> ZeroVector(n),
    target_position |-> ZeroVector(n), target_velocity |-> ZeroVector(n),
    target_acceleration |-> ZeroVector(n),
    max_velocity |-> ZeroVector(n), max_acceleration |-> ZeroVector(n),
    max_jerk |-> ZeroVector(n) ]

OutputParameter(n) ==
  [ new_position |-> ZeroVector(n), new_velocity |-> ZeroVector(n),
    new_acceleration |-> ZeroVector(n) ]

\* OutputParameter::pass_to_input
pass_to_input(output, input) ==
  [ input EXCEPT !.current_position = output.new_position,
                 !.current_velocity = output.new_velocity,
                 !.current_acceleration = output.new_acceleration ]

(***************************************************************************)
(* ruckig::Ruckig::update, the external solver.  Its contract: a usable    *)
(* status comes with a new state inside the velocity and acceleration      *)
(* limits; when the current state is the target state the result is        *)
(* Finished and the new state is the current one; with an error the output *)
(* is not to be trusted: it is left as it was, or holds values outside     *)
(* the limits.                                                             *)
(***************************************************************************)
IsUsable(result) ==
  result \in {"Finished", "Working", "ErrorSynchronizationCalculation"}

AtTarget(input) ==
  \A j \in Joints :
    /\ input.current_position[j] = input.target_position[j]
    /\ input.current_velocity[j] = input.target_velocity[j]
    /\ input.current_acceleration[j] = input.target_acceleration[j]

WithinLimits(input, ks) ==
  \A j \in Joints :
    /\ Abs(ks[j].velocity) <= input.max_velocity[j]
    /\ Abs(ks[j].acceleration) <= input.max_acceleration[j]

OutputOf(ks) ==
  [ new_position |-> PositionsOf(ks), new_velocity |-> VelocitiesOf(ks),
    new_acceleration |-> AccelerationsOf(ks) ]

\* the set of [result, output] the solver may produce for `input`, `output`
\* being the output structure as the call finds it
ruckig_update(input, output) ==
  IF AtTarget(input)
  THEN { [ result |-> "Finished",
           output |-> [ new_position |-> input.current_position,
                        new_velocity |-> input.current_velocity,
                        new_acceleration |-> input.current_acceleration ] ] }
  ELSE { [ result |-> rk[1], output |-> OutputOf(rk[2]) ] :
           rk \in { x \in { r \in Results : IsUsable(r) } \X CallerVectors :
                      WithinLimits(input, x[2]) } }
       \cup { [ result |-> r, output |-> out ] :
                r \in { x \in Results : ~IsUsable(x) },
                out \in { output,
                          OutputOf([j \in Joints |-> KinematicState(1, 3, 2)]) } }

(***************************************************************************)
(* RuckigFilterPlugin::getVelAccelJerkBounds: the loop over the active     *)
(* joints, from joint j on.  b holds the three member vectors; the bounds  *)
(* are appended (push_back) to whatever the vectors already hold.          *)
(* std::exit ends the loop at the first joint without a velocity bound.    *)
(***************************************************************************)
\* variant: a joint without a velocity bound gets a default one (as the batch
\* smoothers do) and the loop goes on
RECURSIVE getVelAccelJerkBoundsFrom_DefaultVelocity(_, _, _)
getVelAccelJerkBoundsFrom_DefaultVelocity(model, j, b) ==
  IF j > NumJoints THEN b
  ELSE LET bound == model[j] IN
    getVelAccelJerkBoundsFrom_DefaultVelocity(model, j + 1,
      [ exited |-> FALSE,
        velocity |->
          Append(b.velocity,
                 IF bound.velocity_bounded_ THEN bound.max_velocity_ ELSE 5),
        acceleration |->
          Append(b.acceleration,
                 IF bound.acceleration_bounded_
                 THEN bound.max_acceleration_ ELSE DBL_MAX),
        jerk |->
          Append(b.jerk,
                 IF bound.jerk_bounded_
                 THEN bound.max_jerk_ ELSE DEFAULT_JERK_BOUND) ])

RECURSIVE getVelAccelJerkBoundsFrom(_, _, _)
getVelAccelJerkBoundsFrom(model, j, b) ==
  IF j > NumJoints THEN b
  ELSE LET bound == model[j] IN
    IF ~bound.velocity_bounded_
    THEN [ b EXCEPT !.exited = TRUE ]
    ELSE getVelAccelJerkBoundsFrom(model, j + 1,
           [ exited |-> FALSE,
             velocity |-> Append(b.velocity, bound.max_velocity_),
             acceleration |->
               Append(b.acceleration,
                      IF bound.acceleration_bounded_
                      THEN bound.max_acceleration_ ELSE DBL_MAX),
             jerk |->
               Append(b.jerk,
                      IF bound.jerk_bounded_
                      THEN bound.max_jerk_ ELSE DEFAULT_JERK_BOUND) ])

getVelAccelJerkBounds(model) ==
  getVelAccelJerkBoundsFrom(model, 1,
    [ exited |-> FALSE, velocity |-> joint_velocity_bounds_,
      acceleration |-> joint_acceleration_bounds_,
      jerk |-> joint_jerk_bounds_ ])

\* assert(joint_jerk_bounds_.size() == num_joints_)
BoundsSizeAssertion(b, n) == Len(b.jerk) = n

(***************************************************************************)
(* RuckigFilterPlugin::initialize(node, robot_model, num_joints)           *)
(*   model: the robot model handed in; num_joints is its joint count.      *)
(*   abort_on_assert: whether the build keeps assert() (no NDEBUG).        *)
(***************************************************************************)
initialize(model, abort_on_assert) ==
  /\ pc \in {"constructed", "ready"}
  /\ num_initialize_calls < MaxInitializeCalls
  /\ num_initialize_calls' = num_initialize_calls + 1
  /\ last_call' = "initialize"
  /\ num_joints_' = NumJoints
  /\ robot_model_' = model
  /\ have_initial_ruckig_output_' = FALSE
  /\ LET b == getVelAccelJerkBounds(model) IN
       /\ joint_velocity_bounds_' = b.velocity
       /\ joint_acceleration_bounds_' = b.acceleration
       /\ joint_jerk_bounds_' = b.jerk
       /\ IF b.exited
          THEN \* std::exit(EXIT_FAILURE): initialize never returns
               /\ pc' = "exited"
               /\ returned' = "none"
               /\ UNCHANGED << ruckig_input_, ruckig_output_ >>
          ELSE IF abort_on_assert /\ ~BoundsSizeAssertion(b, NumJoints)
          THEN \* the assertion fails: abort(), initialize never returns
               /\ pc' = "aborted"
               /\ returned' = "none"
               /\ UNCHANGED << ruckig_input_, ruckig_output_ >>
          ELSE /\ pc' = "ready"
               /\ returned' = "true"
               /\ ruckig_input_' =
                    [ InputParameter(NumJoints) EXCEPT
                        !.max_velocity = b.velocity,
                        !.max_acceleration = b.acceleration,
                        !.max_jerk = b.jerk ]
               /\ ruckig_output_' = OutputParameter(NumJoints)
  /\ last_usable_output' = << >>
  /\ UNCHANGED << ruckig_result, positions, velocities, accelerations >>
  /\ UNCHANGED batch_vars

(***************************************************************************)
(* RuckigFilterPlugin::doSmoothing(positions, velocities, accelerations)   *)
(* The three vectors are the caller's, passed by reference: cmd is what    *)
(* they hold when the call is made, the variables positions, velocities    *)
(* and accelerations what they hold when it returns.                       *)
(***************************************************************************)
\* variant: the last output is fed back whatever the valid-seed flag says
doSmoothingInput_AlwaysFeedsBack(cmd) ==
  [ pass_to_input(ruckig_output_, ruckig_input_)
    EXCEPT !.target_position = PositionsOf(cmd) ]

\* variant: the commanded velocity and acceleration become targets as well
doSmoothingInput_TargetsCommandVelocity(cmd) ==
  [ (IF have_initial_ruckig_output_
     THEN pass_to_input(ruckig_output_, ruckig_input_)
     ELSE ruckig_input_)
    EXCEPT !.target_position = PositionsOf(cmd),
           !.target_velocity = VelocitiesOf(cmd),
           !.target_acceleration = AccelerationsOf(cmd) ]

doSmoothingInput(cmd) ==
  [ (IF have_initial_ruckig_output_
     THEN pass_to_input(ruckig_output_, ruckig_input_)
     ELSE ruckig_input_)
    EXCEPT !.target_position = PositionsOf(cmd) ]

\* variant: the plain Error status is not caught by the test
doSmoothingFailed_MissesError(result) ==
  /\ result # "Finished"
  /\ result # "Working"
  /\ result # "ErrorSynchronizationCalculation"
  /\ result # "Error"

\* variant: ErrorSynchronizationCalculation is taken for a failure
doSmoothingFailed_RejectsSynchronization(result) ==
  /\ result # "Finished"
  /\ result # "Working"

\* variant: Finished is taken for a failure
doSmoothingFailed_RejectsFinished(result) ==
  /\ result # "Working"
  /\ result # "ErrorSynchronizationCalculation"

\* the test of lines 103-104
doSmoothingFailed(result) ==
  /\ result # "Finished"
  /\ result # "Working"
  /\ result # "ErrorSynchronizationCalculation"

\* variant: a solver failure is reported to the caller
doSmoothingReturns_ReportsFailure(result) ==
  IF doSmoothingFailed(result) THEN "false" ELSE "true"

\* the value of the return statements of lines 111 and 123
doSmoothingReturns(result) ==
  IF doSmoothingFailed(result) THEN "true" ELSE "true"

\* variant: on a failure the vectors are given the last solver output
doSmoothingVectors_HoldsLastOutput(cmd, result, output) ==
  IF doSmoothingFailed(result)
  THEN [ positions |-> ruckig_output_.new_position,
         velocities |-> ruckig_output_.new_velocity,
         accelerations |-> ruckig_output_.new_acceleration ]
  ELSE [ positions |-> output.new_position,
         velocities |-> output.new_velocity,
         accelerations |-> output.new_acceleration ]

\* variant: only the positions are taken from the solver
doSmoothingVectors_PositionsOnly(cmd, result, output) ==
  IF doSmoothingFailed(result)
  THEN [ positions |-> PositionsOf(cmd), velocities |-> VelocitiesOf(cmd),
         accelerations |-> AccelerationsOf(cmd) ]
  ELSE [ positions |-> output.new_position,
         velocities |-> VelocitiesOf(cmd),
         accelerations |-> AccelerationsOf(cmd) ]

\* what the caller's vectors hold when doSmoothing returns: untouched on a
\* failure (lines 106-112), the solver's new state otherwise (lines 115-120)
doSmoothingVectors(cmd, result, output) ==
  IF doSmoothingFailed(result)
  THEN [ positions |-> PositionsOf(cmd), velocities |-> VelocitiesOf(cmd),
         accelerations |-> AccelerationsOf(cmd) ]
  ELSE [ positions |-> output.new_position,
         velocities |-> output.new_velocity,
         accelerations |-> output.new_acceleration ]

doSmoothing(cmd) ==
  /\ pc = "ready"
  /\ last_call' = "doSmoothing"
  /\ ruckig_input_' = doSmoothingInput(cmd)
  /\ \E o \in ruckig_update(doSmoothingInput(cmd), ruckig_output_) :
       /\ ruckig_result' = o.result
       /\ ruckig_output_' = o.output
       /\ returned' = doSmoothingReturns(o.result)
       /\ have_initial_ruckig_output_' = ~doSmoothingFailed(o.result)
       /\ LET v == doSmoothingVectors(cmd, o.result, o.output) IN
            /\ positions' = v.positions
            /\ velocities' = v.velocities
            /\ accelerations' = v.accelerations
            /\ last_usable_output' =
                 IF IsUsable(o.result) THEN << v >> ELSE last_usable_output
  /\ UNCHANGED << pc, num_initialize_calls, robot_model_, num_joints_,
                  joint_velocity_bounds_, joint_acceleration_bounds_,
                  joint_jerk_bounds_ >>
  /\ UNCHANGED batch_vars

(***************************************************************************)
(* RuckigFilterPlugin::reset(positions, velocities, accelerations)         *)
(* The vectors are const references: state is what the caller passes.      *)
(***************************************************************************)
\* variant: the current position is not overwritten
resetInput_KeepsPosition(state) ==
  [ ruckig_input_ EXCEPT
      !.current_velocity = VelocitiesOf(state),
      !.current_acceleration = AccelerationsOf(state) ]

resetInput(state) ==
  [ ruckig_input_ EXCEPT
      !.current_position = PositionsOf(state),
      !.current_velocity = VelocitiesOf(state),
      !.current_acceleration = AccelerationsOf(state) ]

reset(state) ==
  /\ pc = "ready"
  /\ last_call' = "reset"
  /\ ruckig_input_' = resetInput(state)
  /\ have_initial_ruckig_output_' = FALSE
  /\ returned' = "true"
  /\ positions' = PositionsOf(state)
  /\ velocities' = VelocitiesOf(state)
  /\ accelerations' = AccelerationsOf(state)
  /\ UNCHANGED << pc, num_initialize_calls, robot_model_, num_joints_,
                  joint_velocity_bounds_, joint_acceleration_bounds_,
                  joint_jerk_bounds_, ruckig_output_, ruckig_result,
                  last_usable_output >>
  /\ UNCHANGED batch_vars

(***************************************************************************)
(*                           The batch smoothers                           *)
(*                                                                         *)
(* Fixed-point units of the trajectory values: positions in 1e-3 rad,      *)
(* velocities in 1e-6 rad/s, accelerations in 1e-6 rad/s^2, durations in   *)
(* 1e-3 s.  Kinematic limits are kept in hundredths of the unit of the     *)
(* robot model's bound (scaling factors are percentages).  Quotients are   *)
(* rounded toward minus infinity.                                          *)
(***************************************************************************)
\* most waypoints of a trajectory handed to applySmoothing
MaxWaypoints == 3
\* most variables of the joint group a trajectory was planned for
MaxDof == 2

\* ruckig_traj_smoothing.cpp:49-51, trackjoint_traj_smoothing.cpp:53-55
DEFAULT_MAX_VELOCITY == 5
DEFAULT_MAX_ACCELERATION == 10
DEFAULT_MAX_JERK == 20
\* ruckig_traj_smoothing.cpp:52   1e-3 rad
IDENTICAL_POSITION_EPSILON == 1
\* ruckig_traj_smoothing.cpp:53
MAX_DURATION_EXTENSION_ATTEMPTS == 5
\* ruckig_traj_smoothing.cpp:54   constexpr size_t ... = 1.1: the
\* initializer is converted to size_t, which drops the fraction
DURATION_EXTENSION_FRACTION == 1
\* ruckig_traj_smoothing.cpp:138  0.01 rad/s
minimum_velocity_magnitude == 10000
\* trackjoint_traj_smoothing.cpp:52   0.001 s
DEFAULT_TRACKJOINT_TIMESTEP == 1
\* trackjoint_traj_smoothing.cpp:57
LOWPASS_FILTER_COEFFICIENT == 20
\* M_PI, in 1e-3 rad
M_PI == 3142

\* moveit::core::RobotState of a waypoint, restricted to the group's joints
RobotState(p, v, a) == [position |-> p, velocity |-> v, acceleration |-> a]

\* robot_trajectory::RobotTrajectory: the group it was planned for (FALSE
\* for a null group), the waypoints and their durations from the previous
RobotTrajectory(group, waypoints, durations) ==
  [ group |-> group, waypoints |-> waypoints,
    duration_from_previous |-> durations ]

\* RobotTrajectory's copy construction and assignment: the copy holds its own
\* waypoint states and durations, so that it allows a rollback
RobotTrajectoryCopy(other) ==
  RobotTrajectory(other.group, other.waypoints, other.duration_from_previous)

getWayPointCount(t) == Len(t.waypoints)
\* JointModelGroup::getVariableCount of the trajectory's group: the length
\* of the vectors of its waypoints
getVariableCount(t) == Len(t.waypoints[1].position)
\* waypoint indices are the code's: they start at 0
getWayPoint(t, idx) == t.waypoints[idx + 1]
getWayPointDurationFromPrevious(t, idx) == t.duration_from_previous[idx + 1]

RECURSIVE SumSeq(_)
SumSeq(s) == IF s = << >> THEN 0 ELSE Head(s) + SumSeq(Tail(s))

\* RobotTrajectory::getAverageSegmentDuration
getAverageSegmentDuration(t) ==
  IF t.duration_from_previous = << >> THEN 0
  ELSE SumSeq(t.duration_from_previous) \div Len(t.duration_from_previous)

\* the joints RobotTrajectory::unwind treats: the continuous revolute ones
ContinuousJoints == { j \in 1..MaxDof : j % 2 = 1 }

\* RobotTrajectory::unwind for one continuous joint: ps are the joint's
\* positions along the trajectory, j the waypoint reached (from 2 on)
RECURSIVE unwindJoint(_, _, _, _)
unwindJoint(ps, j, running_offset, last_value) ==
  IF j > Len(ps) THEN ps
  ELSE LET current_value == ps[j]
           offset == IF last_value > current_value + M_PI
                     THEN running_offset + 2 * M_PI
                     ELSE IF current_value > last_value + M_PI
                     THEN running_offset - 2 * M_PI
                     ELSE running_offset
       IN  unwindJoint([ps EXCEPT ![j] = current_value + offset],
                       j + 1, offset, current_value)

\* RobotTrajectory::unwind
unwind(t) ==
  IF t.waypoints = << >> THEN t
  ELSE LET n == Len(t.waypoints)
           ps(j) == [i \in 1..n |-> t.waypoints[i].position[j]]
           unwound(j) == IF j \in ContinuousJoints
                         THEN unwindJoint(ps(j), 2, 0, ps(j)[1])
                         ELSE ps(j)
       IN  [ t EXCEPT !.waypoints =
               [ i \in 1..n |->
                   [ t.waypoints[i] EXCEPT
                       !.position =
                         [j \in DOMAIN t.waypoints[i].position |->
                            unwound(j)[i]] ] ] ]

\* Waypoints of the trajectories handed in, for a group of num_dof
\* variables.  The first joint carries the velocity v, the other joints
\* stand still.
Waypoint(num_dof, p, v, a) ==
  RobotState([j \in 1..num_dof |-> p],
             [j \in 1..num_dof |-> IF j = 1 THEN v ELSE 0],
             [j \in 1..num_dof |-> a])

\* at rest at 0
AtOrigin(num_dof) == Waypoint(num_dof, 0, 0, 0)
\* at 1 rad, moving at 0.012 rad/s
Moving(num_dof) == Waypoint(num_dof, 1000, 12000, 0)
\* 0.001 rad further: within IDENTICAL_POSITION_EPSILON of Moving
MovingNearby(num_dof) ==
  RobotState([j \in 1..num_dof |-> IF j = 1 THEN 1001 ELSE 1000],
             Moving(num_dof).velocity, Moving(num_dof).acceleration)
\* at 6 rad, more than pi away from Moving, moving backward at 0.01 rad/s,
\* which is minimum_velocity_magnitude
Wrapped(num_dof) == Waypoint(num_dof, 6000, -10000, 500)

\* the waypoints of the trajectories handed in, by index from 1: a halt
\* between moves
StopAndGo(num_dof) ==
  [i \in 1..MaxWaypoints |->
     IF i % 2 = 1 THEN AtOrigin(num_dof) ELSE Moving(num_dof)]

\* a halt between moves, for a group of one variable and for the largest
\* group; for the largest group also waypoints that repeat a position, and
\* positions that wrap
WaypointPatterns ==
  { StopAndGo(1), StopAndGo(MaxDof),
    [i \in 1..MaxWaypoints |->
       IF i % 2 = 1 THEN Moving(MaxDof) ELSE MovingNearby(MaxDof)],
    [i \in 1..MaxWaypoints |->
       IF i % 2 = 1 THEN Moving(MaxDof) ELSE Wrapped(MaxDof)] }

\* duration from the previous waypoint in the trajectories handed in: 0.1 s
SegmentDuration == 100

InputTrajectories ==
  { RobotTrajectory(g, [i \in 1..n |-> w[i]],
                    [i \in 1..n |-> IF i = 1 THEN 0 ELSE SegmentDuration]) :
      g \in BOOLEAN, n \in 0..MaxWaypoints, w \in WaypointPatterns }

NotBounded == VariableBounds(FALSE, 0, FALSE, 0, FALSE, 0)

\* what applySmoothing is called with besides the trajectory: the bounds of
\* the group's joints in the robot model, and max_velocity_scaling_factor
\* and max_acceleration_scaling_factor in percent
SmoothingRequests ==
  { [ model |-> [j \in 1..MaxDof |-> AllBounded],
      scale |-> [velocity |-> 100, acceleration |-> 100] ],
    [ model |->
        [j \in 1..MaxDof |-> IF j % 2 = 1 THEN NotBounded ELSE AllBounded],
      scale |-> [velocity |-> 50, acceleration |-> 10] ] }

\* the kinematic limits of lines 93-117 (setTrackJointLimits 304-335)
VelocityLimit(bounds, scale) ==
  IF bounds.velocity_bounded_
  THEN scale.velocity * bounds.max_velocity_
  ELSE scale.velocity * DEFAULT_MAX_VELOCITY

AccelerationLimit(bounds, scale) ==
  IF bounds.acceleration_bounded_
  THEN scale.acceleration * bounds.max_acceleration_
  ELSE scale.acceleration * DEFAULT_MAX_ACCELERATION

(***************************************************************************)
(* RuckigSmoothing (ruckig_traj_smoothing.cpp)                             *)
(***************************************************************************)
\* variant: the output structure is left as the last solve left it
initializeRuckigState_KeepsOutput(io, first_waypoint) ==
  [ input |-> [ io.input EXCEPT
                  !.current_position = first_waypoint.position,
                  !.current_velocity = first_waypoint.velocity,
                  !.current_acceleration = first_waypoint.acceleration ],
    output |-> io.output ]

\* RuckigSmoothing::initializeRuckigState: io holds ruckig_input and
\* ruckig_output
initializeRuckigState(io, first_waypoint) ==
  [ input |-> [ io.input EXCEPT
                  !.current_position = first_waypoint.position,
                  !.current_velocity = first_waypoint.velocity,
                  !.current_acceleration = first_waypoint.acceleration ],
    output |-> [ new_position |-> first_waypoint.position,
                 new_velocity |-> first_waypoint.velocity,
                 new_acceleration |-> first_waypoint.acceleration ] ]

\* RuckigSmoothing::checkForIdenticalWaypoints; the root is not taken, the
\* squares are compared
checkForIdenticalWaypoints(prev_waypoint, next_waypoint) ==
  LET d(j) == prev_waypoint.position[j] - next_waypoint.position[j]
      magnitude_position_difference_squared ==
        SumSeq([j \in DOMAIN prev_waypoint.position |-> d(j) * d(j)])
  IN  ~(magnitude_position_difference_squared >
          IDENTICAL_POSITION_EPSILON * IDENTICAL_POSITION_EPSILON)

\* RuckigSmoothing::getTargetVelocityMagnitude, squared
getTargetVelocityMagnitudeSquared(input) ==
  SumSeq([j \in DOMAIN input.target_velocity |->
            input.target_velocity[j] * input.target_velocity[j]])

\* new_velocity / target_velocity < 1 in IEEE 754 arithmetic: a zero target
\* velocity gives +inf, NaN or -inf, and only -inf is below 1
VelocityRatioBelowOne(new_velocity, target_velocity) ==
  IF target_velocity = 0 THEN new_velocity < 0
  ELSE IF target_velocity > 0 THEN new_velocity < target_velocity
  ELSE new_velocity > target_velocity

\* RuckigSmoothing::checkForLaggingMotion
checkForLaggingMotion(input, output) ==
  \E j \in DOMAIN input.target_velocity :
    VelocityRatioBelowOne(output.new_velocity[j], input.target_velocity[j])

\* variant: the output of the previous segment is not fed back
getNextCurrentTargetStates_KeepsCurrent(input, output, next_waypoint) ==
  [ input EXCEPT
      !.target_position = next_waypoint.position,
      !.target_velocity = next_waypoint.velocity,
      !.target_acceleration = next_waypoint.acceleration ]

\* RuckigSmoothing::getNextCurrentTargetStates
getNextCurrentTargetStates(input, output, next_waypoint) ==
  [ input EXCEPT
      !.current_position = output.new_position,
      !.current_velocity = output.new_velocity,
      !.current_acceleration = output.new_acceleration,
      !.target_position = next_waypoint.position,
      !.target_velocity = next_waypoint.velocity,
      !.target_acceleration = next_waypoint.acceleration ]

\* variant: the target acceleration is computed from the velocity before
\* it was scaled
decreaseTargetVelocity_UnscaledAcceleration(input, output, timestep) ==
  LET scaled == [j \in DOMAIN input.target_velocity |->
                   (9 * input.target_velocity[j]) \div 10]
  IN  [ input EXCEPT
          !.target_velocity = scaled,
          !.target_acceleration =
            [j \in DOMAIN input.target_velocity |->
               ((input.target_velocity[j] - output.new_velocity[j]) * 1000)
                 \div timestep] ]

\* variant: de-rating scales the velocity limit along with the target
decreaseTargetVelocity_ScalesLimit(input, output, timestep) ==
  LET scaled == [j \in DOMAIN input.target_velocity |->
                   (9 * input.target_velocity[j]) \div 10]
  IN  [ input EXCEPT
          !.target_velocity = scaled,
          !.max_velocity =
            [j \in DOMAIN input.max_velocity |->
               (9 * input.max_velocity[j]) \div 10],
          !.target_acceleration =
            [j \in DOMAIN input.target_velocity |->
               ((scaled[j] - output.new_velocity[j]) * 1000) \div timestep] ]

\* lines 151-158: the target velocity is scaled by 0.9 and the change is
\* propagated to the target acceleration
decreaseTargetVelocity(input, output, timestep) ==
  LET scaled == [j \in DOMAIN input.target_velocity |->
                   (9 * input.target_velocity[j]) \div 10]
  IN  [ input EXCEPT
          !.target_velocity = scaled,
          !.target_acceleration =
            [j \in DOMAIN input.target_velocity |->
               ((scaled[j] - output.new_velocity[j]) * 1000) \div timestep] ]

\* speed of a joint the solver lets move backward: 0.001 rad/s
BackwardSpeed == 1000

\* ruckig::Ruckig::update on one segment: the status and the new state.
\* The new state is the target state; or the target position at half the
\* target velocity; or the current position, moving backward.  Finished
\* comes with the target state; with Error the output is left as it was.
SegmentOutputs(input) ==
  [ reached |-> [ new_position |-> input.target_position,
                  new_velocity |-> input.target_velocity,
                  new_acceleration |-> input.target_acceleration ],
    slower |-> [ new_position |-> input.target_position,
                 new_velocity |->
                   [j \in DOMAIN input.target_velocity |->
                      input.target_velocity[j] \div 2],
                 new_acceleration |-> input.target_acceleration ],
    backward |-> [ new_position |-> input.current_position,
                   new_velocity |->
                     [j \in DOMAIN input.target_velocity |-> -BackwardSpeed],
                   new_acceleration |->
                     [j \in DOMAIN input.target_velocity |-> 0] ] ]

ruckig_update_segment(input, output) ==
  LET o == SegmentOutputs(input) IN
    { [result |-> "Finished", output |-> o.reached],
      [result |-> "Working", output |-> o.reached],
      [result |-> "Working", output |-> o.slower],
      [result |-> "Working", output |-> o.backward],
      [result |-> "ErrorSynchronizationCalculation", output |-> o.slower],
      [result |-> "Error", output |-> output] }

\* variant: a trajectory of one waypoint is let through
RuckigPreconditionsFail_AcceptsOneWaypoint(t) ==
  \/ ~t.group
  \/ getWayPointCount(t) < 1

\* lines 61-73: no group, or not enough waypoints
RuckigPreconditionsFail(t) ==
  \/ ~t.group
  \/ getWayPointCount(t) < 2

\* lines 57-122: the parameters and the locals of applySmoothing when the
\* retry loop is entered, t being the unwound trajectory
RuckigFrame(t, model, scale) ==
  LET num_dof == getVariableCount(t)
      io == initializeRuckigState(
              [ input |-> InputParameter(num_dof),
                output |-> OutputParameter(num_dof) ],
              getWayPoint(t, 0))
  IN  [ rmodel |-> model,
        max_velocity_scaling_factor |-> scale.velocity,
        max_acceleration_scaling_factor |-> scale.acceleration,
        num_waypoints |-> getWayPointCount(t),
        timestep |-> getAverageSegmentDuration(t),
        ruckig_input |->
          [ io.input EXCEPT
              !.max_jerk = [j \in 1..num_dof |-> DEFAULT_MAX_JERK],
              !.max_velocity =
                [j \in 1..num_dof |-> VelocityLimit(model[j], scale)],
              !.max_acceleration =
                [j \in 1..num_dof |-> AccelerationLimit(model[j], scale)] ],
        ruckig_output |-> io.output,
        ruckig_result |-> "uninitialized",
        smoothing_complete |-> FALSE,
        original_trajectory_copy |-> RobotTrajectoryCopy(t),
        duration_extension_attempts |-> 0,
        waypoint_idx |-> 0,
        backward_motion_detected |-> FALSE,
        velocity_magnitude_squared |-> 0 ]

\* RuckigSmoothing::applySmoothing, lines 57-122
RuckigApplySmoothing(model, scale) ==
  /\ at = "idle"
  /\ smoother' = "ruckig"
  /\ IF RuckigPreconditionsFail(trajectory)
     THEN /\ at' = "returned"
          /\ applySmoothing_returned' = "false"
          /\ UNCHANGED << trajectory, frame >>
     ELSE /\ at' = "attempts"
          /\ trajectory' = unwind(trajectory)
          /\ frame' = RuckigFrame(unwind(trajectory), model, scale)
          /\ UNCHANGED applySmoothing_returned
  /\ UNCHANGED << rclcpp_ok, caller_trajectory, solver_invoked >>
  /\ UNCHANGED << passes, error_in_pass, shutdown_observed >>
  /\ UNCHANGED << filter_vars, supplied_state >>

\* line 123: the condition of the retry loop
RuckigAttempts ==
  /\ smoother = "ruckig"
  /\ at = "attempts"
  /\ IF /\ rclcpp_ok
        /\ frame.duration_extension_attempts < MAX_DURATION_EXTENSION_ATTEMPTS
        /\ ~frame.smoothing_complete
     THEN /\ at' = "waypoints"
          /\ frame' = [frame EXCEPT !.waypoint_idx = 0]
          /\ passes' = passes + 1
          /\ error_in_pass' = FALSE
     ELSE /\ at' = "final"
          /\ UNCHANGED << frame, passes, error_in_pass >>
  /\ shutdown_observed' = (shutdown_observed \/ ~rclcpp_ok)
  /\ UNCHANGED << smoother, trajectory, rclcpp_ok, applySmoothing_returned,
                  caller_trajectory, solver_invoked >>
  /\ UNCHANGED << filter_vars, supplied_state >>

\* lines 125-139: the head of the loop over the segments and the first
\* solve of a segment
RuckigWaypoints ==
  /\ smoother = "ruckig"
  /\ at = "waypoints"
  /\ IF frame.waypoint_idx < frame.num_waypoints - 1
     THEN LET next_waypoint == getWayPoint(trajectory, frame.waypoint_idx + 1)
              input == getNextCurrentTargetStates(
                         frame.ruckig_input, frame.ruckig_output, next_waypoint)
          IN  \E o \in ruckig_update_segment(input, frame.ruckig_output) :
                /\ at' = "derating"
                /\ solver_invoked' = TRUE
                /\ frame' =
                     [ frame EXCEPT
                         !.ruckig_input = input,
                         !.ruckig_output = o.output,
                         !.ruckig_result = o.result,
                         !.backward_motion_detected =
                           checkForLaggingMotion(input, o.output),
                         !.velocity_magnitude_squared =
                           getTargetVelocityMagnitudeSquared(input) ]
     ELSE /\ at' = "pass_done"
          /\ UNCHANGED << frame, solver_invoked >>
  /\ UNCHANGED << smoother, trajectory, rclcpp_ok, applySmoothing_returned,
                  caller_trajectory >>
  /\ UNCHANGED << passes, error_in_pass, shutdown_observed >>
  /\ UNCHANGED << filter_vars, supplied_state >>

\* variant: a failed pass is not counted
RuckigRetry_KeepsAttemptCount(t, f) ==
  LET restored == RobotTrajectoryCopy(f.original_trajectory_copy)
      io == initializeRuckigState(
              [input |-> f.ruckig_input, output |-> f.ruckig_output],
              getWayPoint(restored, 0))
  IN  [ trajectory |-> restored,
        frame |-> [ f EXCEPT
                      !.ruckig_input = io.input,
                      !.ruckig_output = io.output ] ]

\* variant: the trajectory of the failed pass is kept
RuckigRetry_KeepsFailedPass(t, f) ==
  LET extended ==
        [ t EXCEPT !.duration_from_previous =
            [ i \in 1..Len(t.duration_from_previous) |->
                IF i = 1 THEN t.duration_from_previous[i]
                ELSE DURATION_EXTENSION_FRACTION
                       * t.duration_from_previous[i] ] ]
      io == initializeRuckigState(
              [input |-> f.ruckig_input, output |-> f.ruckig_output],
              getWayPoint(t, 0))
  IN  [ trajectory |-> extended,
        frame |-> [ f EXCEPT
                      !.ruckig_input = io.input,
                      !.ruckig_output = io.output,
                      !.duration_extension_attempts = @ + 1 ] ]

\* lines 183-196: the failed pass is given up.  The trajectory t is assigned
\* from the copy taken before the first pass, the solver state is
\* re-initialized from its first waypoint and the durations are extended
RuckigRetry(t, f) ==
  LET restored == RobotTrajectoryCopy(f.original_trajectory_copy)
      extended ==
        [ restored EXCEPT !.duration_from_previous =
            [ i \in 1..Len(restored.duration_from_previous) |->
                IF i = 1 THEN restored.duration_from_previous[i]
                ELSE DURATION_EXTENSION_FRACTION
                       * restored.duration_from_previous[i] ] ]
      io == initializeRuckigState(
              [input |-> f.ruckig_input, output |-> f.ruckig_output],
              getWayPoint(restored, 0))
  IN  [ trajectory |-> extended,
        frame |-> [ f EXCEPT
                      !.ruckig_input = io.input,
                      !.ruckig_output = io.output,
                      !.duration_extension_attempts = @ + 1 ] ]

\* variant: a target velocity at the floor is de-rated as well
deratingContinues_AtFloor(f, ok) ==
  /\ f.backward_motion_detected
  /\ ok
  /\ f.velocity_magnitude_squared >=
       minimum_velocity_magnitude * minimum_velocity_magnitude

\* line 140: the condition of the de-rating loop, f being the locals and ok
\* rclcpp::ok(); the magnitudes are compared by their squares
deratingContinues(f, ok) ==
  /\ f.backward_motion_detected
  /\ ok
  /\ f.velocity_magnitude_squared >
       minimum_velocity_magnitude * minimum_velocity_magnitude

\* variant: the waypoint at waypoint_idx itself is overwritten
setNextWayPoint_WritesCurrent(t, waypoint_idx, state) ==
  [ t EXCEPT !.waypoints[waypoint_idx + 1] = state ]

\* lines 127, 146, 167-174: next_waypoint, the waypoint after waypoint_idx,
\* is overwritten with state
setNextWayPoint(t, waypoint_idx, state) ==
  [ t EXCEPT !.waypoints[waypoint_idx + 2] = state ]

\* lines 140-175: one evaluation of the condition of the de-rating loop and
\* what follows it: the collapse of an identical waypoint, a de-rating step
\* with its solve, or the write of the solver output into the next waypoint
RuckigDerating ==
  /\ smoother = "ruckig"
  /\ at = "derating"
  /\ LET prev_waypoint == getWayPoint(trajectory, frame.waypoint_idx)
         next_waypoint == getWayPoint(trajectory, frame.waypoint_idx + 1)
     IN
     IF deratingContinues(frame, rclcpp_ok)
     THEN IF checkForIdenticalWaypoints(prev_waypoint, next_waypoint)
          THEN \* lines 146-147: continue, back to the condition
               /\ trajectory' =
                    setNextWayPoint(trajectory, frame.waypoint_idx,
                                    prev_waypoint)
               /\ UNCHANGED << at, frame, solver_invoked, error_in_pass >>
          ELSE LET input == decreaseTargetVelocity(
                              frame.ruckig_input, frame.ruckig_output,
                              frame.timestep)
               IN  \E o \in ruckig_update_segment(input, frame.ruckig_output) :
                     /\ solver_invoked' = TRUE
                     /\ frame' =
                          [ frame EXCEPT
                              !.ruckig_input = input,
                              !.ruckig_output = o.output,
                              !.ruckig_result = o.result,
                              !.velocity_magnitude_squared =
                                getTargetVelocityMagnitudeSquared(input),
                              !.backward_motion_detected =
                                checkForLaggingMotion(input, o.output) ]
                     /\ UNCHANGED << at, trajectory, error_in_pass >>
     ELSE \* lines 167-175, and ++waypoint_idx
          /\ trajectory' =
               setNextWayPoint(
                 trajectory, frame.waypoint_idx,
                 RobotState(frame.ruckig_output.new_position,
                            frame.ruckig_output.new_velocity,
                            frame.ruckig_output.new_acceleration))
          /\ frame' = [frame EXCEPT !.waypoint_idx = @ + 1]
          /\ at' = "waypoints"
          /\ error_in_pass' =
               (error_in_pass \/ frame.ruckig_result = "Error")
          /\ UNCHANGED solver_invoked
  /\ UNCHANGED << smoother, rclcpp_ok, applySmoothing_returned,
                  caller_trajectory >>
  /\ shutdown_observed' =
       (shutdown_observed \/ (frame.backward_motion_detected /\ ~rclcpp_ok))
  /\ UNCHANGED passes
  /\ UNCHANGED << filter_vars, supplied_state >>

\* lines 177-196: the end of a pass
RuckigPassDone ==
  /\ smoother = "ruckig"
  /\ at = "pass_done"
  /\ at' = "attempts"
  /\ IF frame.ruckig_result = "Working"
     THEN /\ frame' = [frame EXCEPT !.smoothing_complete = TRUE]
          /\ UNCHANGED trajectory
     ELSE /\ trajectory' = RuckigRetry(trajectory, frame).trajectory
          /\ frame' = RuckigRetry(trajectory, frame).frame
  /\ UNCHANGED << smoother, rclcpp_ok, applySmoothing_returned,
                  caller_trajectory, solver_invoked >>
  /\ UNCHANGED << passes, error_in_pass, shutdown_observed >>
  /\ UNCHANGED << filter_vars, supplied_state >>

\* lines 199-206.  ruckig_result is declared without an initializer (line
\* 119): when no solve was made its value is indeterminate.
RuckigFinal ==
  /\ smoother = "ruckig"
  /\ at = "final"
  /\ at' = "returned"
  /\ \E indeterminate \in Results :
       LET result == IF frame.ruckig_result = "uninitialized"
                     THEN indeterminate ELSE frame.ruckig_result
       IN  applySmoothing_returned' =
             IF result # "Working" THEN "false" ELSE "true"
  /\ UNCHANGED << smoother, trajectory, rclcpp_ok, frame, caller_trajectory,
                  solver_invoked >>
  /\ UNCHANGED << passes, error_in_pass, shutdown_observed >>
  /\ UNCHANGED << filter_vars, supplied_state >>

\* rclcpp::ok() turns false: the process is told to shut down
Shutdown ==
  /\ rclcpp_ok
  /\ at # "returned"
  /\ rclcpp_ok' = FALSE
  /\ UNCHANGED << smoother, at, trajectory, frame, applySmoothing_returned,
                  caller_trajectory, solver_invoked >>
  /\ UNCHANGED << passes, error_in_pass, shutdown_observed >>
  /\ UNCHANGED << filter_vars, supplied_state >>

(***************************************************************************)
(* TrackJointSmoothing (trackjoint_traj_smoothing.cpp)                     *)
(***************************************************************************)
\* trackjoint::ErrorCodeEnum, as far as applySmoothing tells the codes apart
ErrorCodes == { "NO_ERROR", "ERROR" }

\* trackjoint::JointTrajectory of one joint: the samples of a segment
JointTrajectory(samples) ==
  [ positions |-> [i \in 1..Len(samples) |-> samples[i].position],
    velocities |-> [i \in 1..Len(samples) |-> samples[i].velocity],
    accelerations |-> [i \in 1..Len(samples) |-> samples[i].acceleration] ]

\* trackjoint::TrajectoryGenerator::generateTrajectories: per joint the
\* current state, the goal state and, with three samples, a state half way
generateTrajectories(current_joint_states, goal_joint_states) ==
  LET half(j) == KinematicState(
                   (current_joint_states[j].position
                      + goal_joint_states[j].position) \div 2,
                   goal_joint_states[j].velocity, 0)
  IN  { [j \in DOMAIN current_joint_states |->
           JointTrajectory(<< current_joint_states[j], goal_joint_states[j] >>)],
        [j \in DOMAIN current_joint_states |->
           JointTrajectory(<< current_joint_states[j], half(j),
                              goal_joint_states[j] >>)] }

\* TrackJointSmoothing::setTrackJointState
setTrackJointState(waypoint_idx, t) ==
  [ j \in DOMAIN getWayPoint(t, waypoint_idx).position |->
      KinematicState(getWayPoint(t, waypoint_idx).position[j],
                     getWayPoint(t, waypoint_idx).velocity[j],
                     getWayPoint(t, waypoint_idx).acceleration[j]) ]

\* TrackJointSmoothing::setTrackJointLimits
setTrackJointLimits(num_dof, model, scale) ==
  [ j \in 1..num_dof |->
      [ jerk_limit |-> DEFAULT_MAX_JERK,
        velocity_limit |-> VelocityLimit(model[j], scale),
        acceleration_limit |-> AccelerationLimit(model[j], scale) ] ]

\* RobotTrajectory::addSuffixWayPoint
addSuffixWayPoint(t, waypoint, dt) ==
  [ t EXCEPT !.waypoints = Append(@, waypoint),
             !.duration_from_previous = Append(@, dt) ]

\* Eigen::VectorXd::operator()(index): outside the vector the read is
\* undefined and gives out_of_range
CoeffAt(v, index, out_of_range) ==
  IF index + 1 <= Len(v) THEN v[index + 1] ELSE out_of_range

\* TrackJointSmoothing::addTrackJointOutpointToRobotTrajectory: the loop of
\* line 263 from waypoint_idx on
RECURSIVE addTrackJointOutpointToRobotTrajectory(_, _, _, _)
addTrackJointOutpointToRobotTrajectory(waypoint_idx, trackjoint_output, new_trajectory, out_of_range) ==
  IF ~(waypoint_idx < Len(trackjoint_output)) THEN new_trajectory
  ELSE addTrackJointOutpointToRobotTrajectory(
         waypoint_idx + 1, trackjoint_output,
         addSuffixWayPoint(
           new_trajectory,
           RobotState(
             [j \in DOMAIN trackjoint_output |->
                CoeffAt(trackjoint_output[j].positions,
                                       waypoint_idx, out_of_range)],
             [j \in DOMAIN trackjoint_output |->
                CoeffAt(trackjoint_output[j].velocities,
                                       waypoint_idx, out_of_range)],
             [j \in DOMAIN trackjoint_output |->
                CoeffAt(trackjoint_output[j].accelerations,
                                       waypoint_idx, out_of_range)]),
           DEFAULT_TRACKJOINT_TIMESTEP),
         out_of_range)

\* online_signal_smoothing::ButterworthFilter::filter along the positions ps
\* of one joint, from waypoint i on (from 2 on, after reset with ps[1])
RECURSIVE ButterworthFilter(_, _, _, _)
ButterworthFilter(ps, i, previous_measurement, previous_filtered_measurement) ==
  IF i > Len(ps) THEN ps
  ELSE LET new_filtered_measurement ==
             (ps[i] + previous_measurement
                + (LOWPASS_FILTER_COEFFICIENT - 1)
                    * previous_filtered_measurement)
               \div (LOWPASS_FILTER_COEFFICIENT + 1)
       IN  ButterworthFilter([ps EXCEPT ![i] = new_filtered_measurement],
                             i + 1, ps[i], new_filtered_measurement)

\* lines 193-196: max_position_discontinuity of a joint, in 1e-8 rad and
\* rounded down (the velocity limit is in 1e-2 rad/s, the acceleration limit
\* in 1e-2 rad/s^2, the jerk limit in rad/s^3, the timestep in 1e-3 s)
max_position_discontinuity(limit) ==
  limit.velocity_limit * DEFAULT_TRACKJOINT_TIMESTEP * 1000
    + ( 5 * limit.acceleration_limit * DEFAULT_TRACKJOINT_TIMESTEP
          * DEFAULT_TRACKJOINT_TIMESTEP * 100000
        + 16667 * limit.jerk_limit * DEFAULT_TRACKJOINT_TIMESTEP
            * DEFAULT_TRACKJOINT_TIMESTEP * DEFAULT_TRACKJOINT_TIMESTEP )
      \div 1000000

fabs(x) == IF x < 0 THEN -x ELSE x

\* variant: a joint is counted at its first discontinuity only
Discontinuities_FirstOnly(ps, limit) ==
  LET all == { i \in 2..Len(ps) :
                 fabs(ps[i] - ps[i - 1]) * 100000
                   > fabs(max_position_discontinuity(limit)) }
  IN  { i \in all : \A k \in all : i <= k }

\* lines 212-224: the waypoints (from 2 on) at which the filtered positions
\* ps of a joint, in 1e-3 rad, are further from the previous waypoint than
\* the joint's bound
Discontinuities(ps, limit) ==
  { i \in 2..Len(ps) :
      fabs(ps[i] - ps[i - 1]) * 100000
        > fabs(max_position_discontinuity(limit)) }

RECURSIVE SumOver(_, _)
SumOver(S, f) ==
  IF S = {} THEN 0
  ELSE LET x == CHOOSE y \in S : TRUE
       IN  f[x] + SumOver(S \ {x}, f)

\* lines 186, 199, 206: the calls of setVariablePosition in the order the
\* two loops make them, each as << joint, waypoint_idx >>, for num_dof joints
\* and n waypoints; joints count from 1, waypoints from 0
setVariablePositionCalls(num_dof, n) ==
  IF n < 2 THEN << >>
  ELSE [ k \in 1..(num_dof * (n - 1)) |->
           << ((k - 1) \div (n - 1)) + 1, ((k - 1) % (n - 1)) + 1 >> ]

\* variant: the velocities are derived again from the filtered positions
doIterativeLowPassFilter_UpdatesVelocity(limits, t) ==
  LET n == Len(t.waypoints)
      dofs == DOMAIN t.waypoints[1].position
      ps(j) == [i \in 1..n |-> t.waypoints[i].position[j]]
      filtered(j) == ButterworthFilter(ps(j), 2, ps(j)[1], ps(j)[1])
  IN  [ trajectory |->
          [ t EXCEPT !.waypoints =
              [ i \in 1..n |->
                  [ t.waypoints[i] EXCEPT
                      !.position = [j \in dofs |-> filtered(j)[i]],
                      !.velocity =
                        [j \in dofs |->
                           IF i = 1 THEN t.waypoints[i].velocity[j]
                           ELSE ((filtered(j)[i] - filtered(j)[i - 1]) * 1000)
                                  \div DEFAULT_TRACKJOINT_TIMESTEP] ] ] ],
        num_failures |->
          SumOver(dofs,
                  [j \in dofs |->
                     Cardinality(Discontinuities(filtered(j), limits[j]))]),
        position_writes |-> setVariablePositionCalls(Len(limits), n),
        returned |-> TRUE ]

\* variant: one filter for all joints, seeded with the first joint's position
doIterativeLowPassFilter_SharesSeed(limits, t) ==
  LET n == Len(t.waypoints)
      dofs == DOMAIN t.waypoints[1].position
      ps(j) == [i \in 1..n |-> t.waypoints[i].position[j]]
      filtered(j) == ButterworthFilter(ps(j), 2, ps(1)[1], ps(1)[1])
  IN  [ trajectory |->
          [ t EXCEPT !.waypoints =
              [ i \in 1..n |->
                  [ t.waypoints[i] EXCEPT
                      !.position = [j \in dofs |->
                                      IF i = 1 THEN t.waypoints[i].position[j]
                                      ELSE filtered(j)[i]] ] ] ],
        num_failures |->
          SumOver(dofs,
                  [j \in dofs |->
                     Cardinality(Discontinuities(filtered(j), limits[j]))]),
        position_writes |-> setVariablePositionCalls(Len(limits), n),
        returned |-> TRUE ]

\* variant: a discontinuity makes the filter fail
doIterativeLowPassFilter_FailsOnDiscontinuity(limits, t) ==
  LET n == Len(t.waypoints)
      dofs == DOMAIN t.waypoints[1].position
      ps(j) == [i \in 1..n |-> t.waypoints[i].position[j]]
      filtered(j) == ButterworthFilter(ps(j), 2, ps(j)[1], ps(j)[1])
      failures == SumOver(dofs,
                    [j \in dofs |->
                       Cardinality(Discontinuities(filtered(j), limits[j]))])
  IN  [ trajectory |->
          [ t EXCEPT !.waypoints =
              [ i \in 1..n |->
                  [ t.waypoints[i] EXCEPT
                      !.position = [j \in dofs |-> filtered(j)[i]] ] ] ],
        num_failures |-> failures,
        position_writes |-> setVariablePositionCalls(Len(limits), n),
        returned |-> (failures = 0) ]

\* TrackJointSmoothing::doIterativeLowPassFilter: the trajectory it leaves,
\* the failures it counts, the positions it wrote and what it returns
doIterativeLowPassFilter(limits, t) ==
  LET n == Len(t.waypoints)
      dofs == DOMAIN t.waypoints[1].position
      ps(j) == [i \in 1..n |-> t.waypoints[i].position[j]]
      filtered(j) == ButterworthFilter(ps(j), 2, ps(j)[1], ps(j)[1])
  IN  [ trajectory |->
          [ t EXCEPT !.waypoints =
              [ i \in 1..n |->
                  [ t.waypoints[i] EXCEPT
                      !.position = [j \in dofs |-> filtered(j)[i]] ] ] ],
        num_failures |->
          SumOver(dofs,
                  [j \in dofs |->
                     Cardinality(Discontinuities(filtered(j), limits[j]))]),
        position_writes |-> setVariablePositionCalls(Len(limits), n),
        returned |-> TRUE ]

\* what an undefined read may give
UndefinedValues == { 0, 7777 }

\* lines 64-76: no group, or not enough waypoints
TrackJointPreconditionsFail(t) ==
  \/ ~t.group
  \/ getWayPointCount(t) < 2

\* lines 78-116: the locals of applySmoothing when the loop over the
\* segments is entered, t being the trajectory handed in
TrackJointFrame(t, model, scale) ==
  [ num_waypoints |-> getWayPointCount(t),
    outgoing_trajectory |->
      addSuffixWayPoint(RobotTrajectory(t.group, << >>, << >>),
                        getWayPoint(t, 0),
                        getWayPointDurationFromPrevious(t, 0)),
    limits |-> setTrackJointLimits(getVariableCount(t), model, scale),
    current_joint_states |-> setTrackJointState(0, unwind(t)),
    waypoint_idx |-> 0,
    error_code |-> "uninitialized",
    num_failures |-> 0 ]

\* TrackJointSmoothing::applySmoothing, lines 60-116
TrackJointApplySmoothing(model, scale) ==
  /\ at = "idle"
  /\ smoother' = "trackjoint"
  /\ IF TrackJointPreconditionsFail(trajectory)
     THEN /\ at' = "returned"
          /\ applySmoothing_returned' = "false"
          /\ UNCHANGED << trajectory, frame >>
     ELSE /\ at' = "segments"
          /\ trajectory' = unwind(trajectory)
          /\ frame' = TrackJointFrame(trajectory, model, scale)
          /\ UNCHANGED applySmoothing_returned
  /\ UNCHANGED << rclcpp_ok, caller_trajectory, solver_invoked >>
  /\ UNCHANGED << passes, error_in_pass, shutdown_observed >>
  /\ UNCHANGED << filter_vars, supplied_state >>

\* lines 119-161: one segment.  input_error is what inputChecking returns,
\* generate_error and output what generateTrajectories returns.
TrackJointSegment ==
  /\ smoother = "trackjoint"
  /\ at = "segments"
  /\ IF frame.waypoint_idx < frame.num_waypoints - 1
     THEN LET goal_joint_states ==
                setTrackJointState(frame.waypoint_idx + 1, trajectory)
          IN  \E input_error \in ErrorCodes, generate_error \in ErrorCodes,
                 trackjoint_output \in
                   generateTrajectories(frame.current_joint_states,
                                        goal_joint_states),
                 out_of_range \in UndefinedValues :
                /\ solver_invoked' = TRUE
                /\ IF input_error # "NO_ERROR"
                   THEN /\ at' = "returned"
                        /\ applySmoothing_returned' = "false"
                        /\ frame' = [frame EXCEPT !.error_code = input_error]
                   ELSE IF generate_error # "NO_ERROR"
                   THEN /\ at' = "returned"
                        /\ applySmoothing_returned' = "false"
                        /\ frame' = [frame EXCEPT !.error_code = generate_error]
                   ELSE LET last_trackjoint_index ==
                              Len(trackjoint_output[1].positions) - 1
                        IN
                        /\ frame' =
                             [ frame EXCEPT
                                 !.error_code = generate_error,
                                 !.outgoing_trajectory =
                                   addTrackJointOutpointToRobotTrajectory(
                                     1, trackjoint_output, @, out_of_range),
                                 !.current_joint_states =
                                   [ j \in DOMAIN trackjoint_output |->
                                       KinematicState(
                                         trackjoint_output[j].positions[
                                           last_trackjoint_index + 1],
                                         trackjoint_output[j].velocities[
                                           last_trackjoint_index + 1],
                                         trackjoint_output[j].accelerations[
                                           last_trackjoint_index + 1]) ],
                                 !.waypoint_idx = @ + 1 ]
                        /\ UNCHANGED << at, applySmoothing_returned >>
     ELSE /\ at' = "lowpass"
          /\ UNCHANGED << frame, applySmoothing_returned, solver_invoked >>
  /\ UNCHANGED << smoother, trajectory, rclcpp_ok, caller_trajectory >>
  /\ UNCHANGED << passes, error_in_pass, shutdown_observed >>
  /\ UNCHANGED << filter_vars, supplied_state >>

\* lines 163-177: the low-pass filter and the assignment to the caller's
\* trajectory
TrackJointLowPass ==
  /\ smoother = "trackjoint"
  /\ at = "lowpass"
  /\ at' = "returned"
  /\ LET filter == doIterativeLowPassFilter(frame.limits,
                                            frame.outgoing_trajectory)
     IN  /\ frame' = [ frame EXCEPT
                         !.outgoing_trajectory = filter.trajectory,
                         !.num_failures = filter.num_failures ]
         /\ IF ~filter.returned
            THEN /\ applySmoothing_returned' = "false"
                 /\ UNCHANGED trajectory
            ELSE /\ applySmoothing_returned' = "true"
                 /\ trajectory' = filter.trajectory
  /\ UNCHANGED << smoother, rclcpp_ok, caller_trajectory, solver_invoked >>
  /\ UNCHANGED << passes, error_in_pass, shutdown_observed >>
  /\ UNCHANGED << filter_vars, supplied_state >>

(***************************************************************************)
(* No call of a batch smoother is under way.                               *)
(***************************************************************************)
BatchIdle ==
  /\ smoother = "none"
  /\ at = "idle"
  /\ rclcpp_ok = TRUE
  /\ frame = [waypoint_idx |-> 0]
  /\ applySmoothing_returned = "none"
  /\ caller_trajectory = trajectory
  /\ solver_invoked = FALSE
  /\ passes = 0
  /\ error_in_pass = FALSE
  /\ shutdown_observed = FALSE
  /\ solver_history = [solved |-> {}, final_status |-> << >>]

(***************************************************************************)
(* The streaming smoother: a freshly constructed plugin object and a       *)
(* caller that serializes initialize / doSmoothing / reset.                *)
(***************************************************************************)
FilterInit ==
  /\ pc = "constructed"
  /\ num_initialize_calls = 0
  /\ robot_model_ = << >>
  /\ num_joints_ = 0
  /\ have_initial_ruckig_output_ = FALSE
  /\ joint_velocity_bounds_ = << >>
  /\ joint_acceleration_bounds_ = << >>
  /\ joint_jerk_bounds_ = << >>
  /\ ruckig_input_ = InputParameter(0)
  /\ ruckig_output_ = OutputParameter(0)
  /\ ruckig_result = "none"
  /\ last_call = "none"
  /\ returned = "none"
  /\ positions = ZeroVector(NumJoints)
  /\ velocities = ZeroVector(NumJoints)
  /\ accelerations = ZeroVector(NumJoints)
  /\ last_usable_output = << >>
  /\ supplied_state = << << >>, << >>, << >> >>

Init ==
  /\ FilterInit
  /\ trajectory = RobotTrajectory(FALSE, << >>, << >>)
  /\ BatchIdle

Next ==
  \/ \E model \in RobotModels, abort_on_assert \in BOOLEAN :
       initialize(model, abort_on_assert) /\ UNCHANGED supplied_state
  \/ \E cmd \in CallerVectors :
       doSmoothing(cmd) /\ UNCHANGED supplied_state
  \/ \E state \in CallerVectors :
       reset(state) /\ UNCHANGED supplied_state

Spec == Init /\ [][Next]_vars

\* The same calls, with the history of what initialize and reset left as
\* the current state of the solver input (lines 71-74, 130-134).
SuppliedBy(input) ==
  << input.current_position, input.current_velocity,
     input.current_acceleration >>

FeedbackNext ==
  \/ \E model \in RobotModels, abort_on_assert \in BOOLEAN :
       /\ initialize(model, abort_on_assert)
       /\ supplied_state' = SuppliedBy(ruckig_input_')
  \/ \E cmd \in CallerVectors :
       doSmoothing(cmd) /\ UNCHANGED supplied_state
  \/ \E state \in CallerVectors :
       /\ reset(state)
       /\ supplied_state' = SuppliedBy(ruckig_input_')

SpecFeedback == Init /\ [][FeedbackNext]_vars

(***************************************************************************)
(* The batch smoothers: a caller hands a trajectory to applySmoothing of   *)
(* RuckigSmoothing or of TrackJointSmoothing, while the process may be     *)
(* told to shut down.                                                      *)
(***************************************************************************)
BatchInit ==
  /\ FilterInit
  /\ trajectory \in InputTrajectories
  /\ BatchIdle

BatchNext ==
  \/ \E request \in SmoothingRequests :
       /\ RuckigApplySmoothing(request.model, request.scale)
       /\ UNCHANGED solver_history
  \/ RuckigAttempts /\ UNCHANGED solver_history
  \/ RuckigWaypoints /\ UNCHANGED solver_history
  \/ RuckigDerating /\ UNCHANGED solver_history
  \/ RuckigPassDone /\ UNCHANGED solver_history
  \/ RuckigFinal /\ UNCHANGED solver_history
  \/ \E request \in SmoothingRequests :
       /\ TrackJointApplySmoothing(request.model, request.scale)
       /\ UNCHANGED solver_history
  \/ TrackJointSegment /\ UNCHANGED solver_history
  \/ TrackJointLowPass /\ UNCHANGED solver_history
  \/ Shutdown /\ UNCHANGED solver_history

SpecBatch == BatchInit /\ [][BatchNext]_vars

\* the steps of a call of applySmoothing once it is under way: the thread
\* that runs the call keeps running.  Nothing makes the process shut down.
BatchProgram ==
  \/ RuckigAttempts /\ UNCHANGED solver_history
  \/ RuckigWaypoints /\ UNCHANGED solver_history
  \/ RuckigDerating /\ UNCHANGED solver_history
  \/ RuckigPassDone /\ UNCHANGED solver_history
  \/ RuckigFinal /\ UNCHANGED solver_history
  \/ TrackJointSegment /\ UNCHANGED solver_history
  \/ TrackJointLowPass /\ UNCHANGED solver_history

SpecBatchLive == SpecBatch /\ WF_vars(BatchProgram)

(***************************************************************************)
(* RuckigSmoothing's applySmoothing with a deterministic solver: what      *)
(* ruckig.update answered for an input and an output structure, it answers *)
(* again when it is handed the same two.  solver_history.solved keeps the  *)
(* answers, solver_history.final_status the status each pass ended with.   *)
(***************************************************************************)
\* lines 132, 161: the solve of this step answers as the solver did before
SolverAnswers ==
  LET answer == [ input |-> frame'.ruckig_input,
                  output |-> frame.ruckig_output,
                  result |-> frame'.ruckig_result,
                  new_output |-> frame'.ruckig_output ]
  IN  /\ \A h \in solver_history.solved :
           (h.input = answer.input /\ h.output = answer.output) => h = answer
      /\ solver_history' =
           [solver_history EXCEPT !.solved = @ \cup {answer}]

\* lines 140-161: this evaluation of the de-rating loop runs the solver
DeratingSolves ==
  /\ deratingContinues(frame, rclcpp_ok)
  /\ ~checkForIdenticalWaypoints(
        getWayPoint(trajectory, frame.waypoint_idx),
        getWayPoint(trajectory, frame.waypoint_idx + 1))

DeterministicNext ==
  \/ \E request \in SmoothingRequests :
       /\ RuckigApplySmoothing(request.model, request.scale)
       /\ UNCHANGED solver_history
  \/ RuckigAttempts /\ UNCHANGED solver_history
  \/ /\ RuckigWaypoints
     /\ IF at' = "derating" THEN SolverAnswers ELSE UNCHANGED solver_history
  \/ /\ RuckigDerating
     /\ IF DeratingSolves THEN SolverAnswers ELSE UNCHANGED solver_history
  \/ /\ RuckigPassDone
     /\ solver_history' =
          [solver_history EXCEPT
             !.final_status = Append(@, frame.ruckig_result)]
  \/ RuckigFinal /\ UNCHANGED solver_history
  \/ Shutdown /\ UNCHANGED solver_history

SpecBatchDeterministic == BatchInit /\ [][DeterministicNext]_vars

(***************************************************************************)
(*                     Properties of the streaming smoother                *)
(***************************************************************************)
\* The spec's status "ApproximateSynchronization" is the code's
\* ruckig::Result::ErrorSynchronizationCalculation.
UsableStatuses == {"Finished", "Working", "ErrorSynchronizationCalculation"}

CurrentStateOf(input) ==
  << input.current_position, input.current_velocity,
     input.current_acceleration >>

CallerHolds == << positions, velocities, accelerations >>

VectorsOf(ks) == << PositionsOf(ks), VelocitiesOf(ks), AccelerationsOf(ks) >>

\* C1: whenever the solver returns a status other than Finished, Working or
\* ApproximateSynchronization, doSmoothing leaves the caller's position,
\* velocity and acceleration vectors exactly as they were passed in and the
\* valid-seed flag is false when it returns.
C1_FailedStepLeavesVectorsUntouched ==
  [][ \A cmd \in CallerVectors :
        (doSmoothing(cmd) /\ ruckig_result' \notin UsableStatuses)
          => /\ CallerHolds' = VectorsOf(cmd)
             /\ have_initial_ruckig_output_' = FALSE ]_vars

\* a failed step after a usable one, with a moving command passed through
C1_Witness ==
  /\ last_call = "doSmoothing"
  /\ ruckig_result = "Error"
  /\ last_usable_output # << >>
  /\ velocities[1] = 3
  /\ ~have_initial_ruckig_output_

\* C2: doSmoothing returns true for every solver status, the error statuses
\* included, in every state reachable after initialize.
C2_StepAlwaysReportsSuccess ==
  last_call = "doSmoothing" => returned = "true"

C2_Witness ==
  /\ last_call = "doSmoothing"
  /\ ruckig_result = "Error"
  /\ returned = "true"
  /\ num_initialize_calls = 2

\* C3 as claimed: when a step's solver status is an error and an earlier
\* step succeeded, the vectors the caller holds after the failing step equal
\* the values returned by the most recent successful step.
C3_Claimed_HoldsLastSuccessfulOutput ==
  ( /\ last_call = "doSmoothing"
    /\ ruckig_result \notin UsableStatuses
    /\ last_usable_output # << >> )
  => /\ positions = last_usable_output[1].positions
     /\ velocities = last_usable_output[1].velocities
     /\ accelerations = last_usable_output[1].accelerations

\* C3 amended: when a step's solver status is an error and an earlier step
\* succeeded, the vectors the caller holds after the failing step are the
\* ones it passed into that step; they are the values returned by the most
\* recent successful step exactly when the caller passed those in.
C3_FailedStepHoldsPassedCommand ==
  [][ \A cmd \in CallerVectors :
        ( /\ doSmoothing(cmd)
          /\ ruckig_result' \notin UsableStatuses
          /\ last_usable_output # << >> )
        => LET last == last_usable_output[1] IN
           /\ positions' = PositionsOf(cmd)
           /\ velocities' = VelocitiesOf(cmd)
           /\ accelerations' = AccelerationsOf(cmd)
           /\ ( CallerHolds' =
                  << last.positions, last.velocities, last.accelerations >> )
              <=> ( VectorsOf(cmd) =
                  << last.positions, last.velocities, last.accelerations >> )
    ]_vars

\* a failed step that left the caller with something else than the values of
\* the last successful step
C3_Witness ==
  /\ last_call = "doSmoothing"
  /\ ruckig_result \notin UsableStatuses
  /\ last_usable_output # << >>
  /\ positions # last_usable_output[1].positions

\* C4: whenever the solver returns Finished, Working or
\* ApproximateSynchronization, the vectors doSmoothing returns equal the
\* solver's new_position / new_velocity / new_acceleration of that call for
\* every joint, and the valid-seed flag is true.
C4_UsableStepReturnsSolverOutput ==
  (last_call = "doSmoothing" /\ ruckig_result \in UsableStatuses)
  => /\ \A j \in Joints :
          /\ positions[j] = ruckig_output_.new_position[j]
          /\ velocities[j] = ruckig_output_.new_velocity[j]
          /\ accelerations[j] = ruckig_output_.new_acceleration[j]
     /\ have_initial_ruckig_output_ = TRUE

C4_Witness ==
  /\ last_call = "doSmoothing"
  /\ ruckig_result = "ErrorSynchronizationCalculation"
  /\ have_initial_ruckig_output_
  /\ positions[1] = 2 /\ velocities[1] = 1 /\ accelerations[1] = -1

\* C5: reset(p, v, a) sets the solver's current position / velocity /
\* acceleration to exactly (p, v, a) and clears the valid-seed flag, and the
\* solver call of the immediately following step receives (p, v, a) as its
\* current state, whatever steps preceded the reset.
C5_ResetSeedsNextStep ==
  [][ /\ \A state \in CallerVectors :
           reset(state) => /\ CurrentStateOf(ruckig_input_') = VectorsOf(state)
                           /\ have_initial_ruckig_output_' = FALSE
      /\ \A cmd \in CallerVectors :
           (last_call = "reset" /\ doSmoothing(cmd))
             => CurrentStateOf(ruckig_input_') = CurrentStateOf(ruckig_input_)
    ]_vars

\* a reset, after usable steps, to a state that is not the last solver output
C5_Witness ==
  /\ last_call = "reset"
  /\ last_usable_output # << >>
  /\ ruckig_input_.current_position # ruckig_output_.new_position
  /\ ruckig_input_.current_velocity[1] = 3

VelocityBoundMissing(model) ==
  \E j \in Joints : ~model[j].velocity_bounded_

\* C6 as claimed: initialize returns failure (false) to its caller if any
\* active joint of the group has no velocity bound defined.
C6_Claimed_InitializeReturnsFalse ==
  (last_call = "initialize" /\ VelocityBoundMissing(robot_model_))
  => returned = "false"

\* C6 amended: initialize never returns failure; if any active joint of the
\* group has no velocity bound defined, initialize does not return at all:
\* the process is ended by std::exit(EXIT_FAILURE).
C6_MissingVelocityBoundExits ==
  /\ returned # "false"
  /\ (last_call = "initialize" /\ VelocityBoundMissing(robot_model_))
     => (pc = "exited" /\ returned = "none")

C6_Witness ==
  /\ last_call = "initialize"
  /\ VelocityBoundMissing(robot_model_)
  /\ pc = "exited"

\* the limit the session is to hold for a joint, from the model's bound
ExpectedAccelerationLimit(bound) ==
  IF bound.acceleration_bounded_ THEN bound.max_acceleration_ ELSE DBL_MAX

ExpectedJerkLimit(bound) ==
  IF bound.jerk_bounded_ THEN bound.max_jerk_ ELSE DEFAULT_JERK_BOUND

\* C7: initialize, when every joint has a velocity bound, returns success
\* and leaves the session with current position / velocity / acceleration
\* all zero, the valid-seed flag false and, per joint, the acceleration
\* limit equal to the model's bound if defined and otherwise DBL_MAX, and
\* the jerk limit equal to the model's bound if defined and otherwise 300.
C7_InitializeLeavesLimitsAndZeroState ==
  (last_call = "initialize" /\ ~VelocityBoundMissing(robot_model_))
  => /\ returned = "true"
     /\ have_initial_ruckig_output_ = FALSE
     /\ \A j \in Joints :
          /\ ruckig_input_.current_position[j] = 0
          /\ ruckig_input_.current_velocity[j] = 0
          /\ ruckig_input_.current_acceleration[j] = 0
          /\ ruckig_input_.max_acceleration[j] =
               ExpectedAccelerationLimit(robot_model_[j])
          /\ ruckig_input_.max_jerk[j] = ExpectedJerkLimit(robot_model_[j])

\* C8 as claimed: the velocity and acceleration doSmoothing leaves in the
\* caller's vectors never exceed max_velocity / max_acceleration in
\* magnitude, after any sequence of reset and doSmoothing calls, steps on
\* which the solver reports an error included.
C8_Claimed_StepAlwaysWithinLimits ==
  last_call = "doSmoothing"
  => \A j \in Joints :
       /\ Abs(velocities[j]) <= ruckig_input_.max_velocity[j]
       /\ Abs(accelerations[j]) <= ruckig_input_.max_acceleration[j]

\* C8 amended: the velocity and acceleration doSmoothing leaves in the
\* caller's vectors never exceed max_velocity / max_acceleration in
\* magnitude on any step for which the solver returns Finished, Working or
\* ApproximateSynchronization, after any sequence of reset and doSmoothing
\* calls; on a step for which the solver reports an error they are the
\* values the caller passed in, which nothing bounds.
C8_UsableStepWithinLimits ==
  (last_call = "doSmoothing" /\ ruckig_result \in UsableStatuses)
  => \A j \in Joints :
       /\ Abs(velocities[j]) <= ruckig_input_.max_velocity[j]
       /\ Abs(accelerations[j]) <= ruckig_input_.max_acceleration[j]

\* a usable step on a once-initialized plugin that returned a joint moving
\* at its velocity limit
C8_Witness ==
  /\ last_call = "doSmoothing"
  /\ ruckig_result = "Working"
  /\ Abs(velocities[1]) = ruckig_input_.max_velocity[1]
  /\ Abs(accelerations[1]) = 1
  /\ num_initialize_calls = 1

AtRest(vels, accs) ==
  \A j \in Joints : vels[j] = 0 /\ accs[j] = 0

\* C9 as claimed: calling reset with a state X and then doSmoothing with the
\* target position equal to X's position leaves the output position at X.
C9_Claimed_ResetThenStepHoldsPosition ==
  [][ \A cmd \in CallerVectors :
        ( /\ last_call = "reset"
          /\ doSmoothing(cmd)
          /\ PositionsOf(cmd) = positions )
        => positions' = positions ]_vars

\* C9 amended: calling reset with a state X that is at rest (zero velocity
\* and acceleration) and then doSmoothing with the target position equal to
\* X's position leaves the output position at X (and the output at rest).
C9_ResetAtRestThenStepHoldsPosition ==
  [][ \A cmd \in CallerVectors :
        ( /\ last_call = "reset"
          /\ AtRest(velocities, accelerations)
          /\ doSmoothing(cmd)
          /\ PositionsOf(cmd) = positions )
        => /\ positions' = positions
           /\ AtRest(velocities', accelerations') ]_vars

\* a reset to a state at rest, made when the solver's current state was a
\* moving one
C9_Witness ==
  /\ last_call = "reset"
  /\ AtRest(velocities, accelerations)
  /\ last_usable_output # << >>
  /\ ruckig_output_.new_velocity[1] # 0
  /\ ruckig_input_.current_position = positions


(***************************************************************************)
(*                      Properties of the batch smoothers                  *)
(***************************************************************************)
\* the trajectory handed in has no group or fewer than two waypoints
PreconditionViolated(t) ==
  \/ ~t.group
  \/ getWayPointCount(t) < 2

\* C10: when the trajectory handed to applySmoothing (of RuckigSmoothing or
\* of TrackJointSmoothing) has no joint group or fewer than two waypoints,
\* the call returns false at once; the caller's trajectory keeps every
\* waypoint position, velocity and acceleration, every duration and its
\* waypoint count, and neither the solver nor the generator is run.
C10_PreconditionFailureLeavesTrajectory ==
  PreconditionViolated(caller_trajectory) =>
    /\ trajectory = caller_trajectory
    /\ ~solver_invoked
    /\ smoother # "none" =>
         /\ at = "returned"
         /\ applySmoothing_returned = "false"

\* applySmoothing has returned false on a trajectory without group whose
\* positions wrap, so that unwinding it would have changed it
C10_Witness ==
  /\ smoother \in {"ruckig", "trackjoint"}
  /\ at = "returned"
  /\ applySmoothing_returned = "false"
  /\ ~caller_trajectory.group
  /\ getWayPointCount(caller_trajectory) >= 2
  /\ unwind(caller_trajectory) # caller_trajectory
  /\ trajectory = caller_trajectory

\* the call of RuckigSmoothing::applySmoothing has returned after its
\* preconditions held
RuckigReturnedFromLoop ==
  /\ smoother = "ruckig"
  /\ at = "returned"
  /\ ~PreconditionViolated(caller_trajectory)

\* C11: applySmoothing never begins more than 5 passes over the segments;
\* when it returns with rclcpp::ok() still true and no pass accepted, it has
\* made exactly 5 passes and returns false.
C11_RetryBound ==
  /\ passes <= 5
  /\ (RuckigReturnedFromLoop /\ rclcpp_ok /\ ~frame.smoothing_complete) =>
       /\ passes = 5
       /\ frame.duration_extension_attempts = MAX_DURATION_EXTENSION_ATTEMPTS
       /\ applySmoothing_returned = "false"

\* five passes were made, none accepted, and the call returned false
C11_Witness ==
  /\ RuckigReturnedFromLoop
  /\ rclcpp_ok
  /\ passes = 5
  /\ ~frame.smoothing_complete
  /\ applySmoothing_returned = "false"

\* C12 (as claimed): the end of a pass accepts the pass exactly when the
\* solver's last status, that of the final segment, is Finished.
C12_Claimed_AcceptsExactlyFinished ==
  [][ RuckigPassDone =>
        (frame'.smoothing_complete <=> frame.ruckig_result = "Finished") ]_vars

\* C13 (as claimed): a call whose last solver status is Finished, Working or
\* ErrorSynchronizationCalculation does not return failure.
C13_Claimed_UsableStatusNeverFails ==
  (RuckigReturnedFromLoop /\ frame.ruckig_result \in UsableStatuses) =>
    applySmoothing_returned = "true"

\* C14 (as claimed): a pass in which some segment ended with the status
\* Error is not accepted, and the call does not return success from it.
C14_Claimed_ErrorInPassNeverSucceeds ==
  (smoother = "ruckig" /\ error_in_pass) =>
    /\ ~frame.smoothing_complete
    /\ applySmoothing_returned # "true"

\* a pass of RuckigSmoothing has just ended with a status the code rejects
FailedPassEnds == RuckigPassDone /\ frame.ruckig_result # "Working"

\* C15 (as claimed): after a failed pass every duration-from-previous of
\* the waypoints 1..n-1 is strictly larger than the duration the failed pass
\* used, by the factor 1.1.
C15_Claimed_FailedPassExtendsDurations ==
  [][ FailedPassEnds =>
        \A i \in 2..Len(trajectory.duration_from_previous) :
          /\ trajectory'.duration_from_previous[i]
               > trajectory.duration_from_previous[i]
          /\ 10 * trajectory'.duration_from_previous[i]
               = 11 * trajectory.duration_from_previous[i] ]_vars

\* the retry budget of RuckigSmoothing is used up and the call has returned
RuckigBudgetExhausted ==
  /\ RuckigReturnedFromLoop
  /\ frame.duration_extension_attempts = MAX_DURATION_EXTENSION_ATTEMPTS

C17_Claimed_CancelledPassIsNotAccepted ==
  [][ (RuckigPassDone /\ shutdown_observed) =>
        ~frame'.smoothing_complete ]_vars

\* C18: the first waypoint is never rewritten.  During and after
\* RuckigSmoothing's applySmoothing, whatever the number of passes and the
\* outcome, and during and after TrackJointSmoothing's, the first waypoint
\* of the caller's trajectory holds the position, velocity and acceleration
\* it had before the call, after unwinding; the trajectory TrackJoint builds
\* and low-pass filters starts with that waypoint before and after the
\* filter.
C18_FirstWaypointIsKept ==
  (at # "idle" /\ ~PreconditionViolated(caller_trajectory)) =>
    /\ getWayPoint(trajectory, 0) = getWayPoint(unwind(caller_trajectory), 0)
    /\ (smoother = "trackjoint") =>
         getWayPoint(frame.outgoing_trajectory, 0)
           = getWayPoint(caller_trajectory, 0)

\* a second pass of RuckigSmoothing was accepted and has rewritten the
\* waypoints after the first
C18_Witness ==
  /\ RuckigReturnedFromLoop
  /\ passes >= 2
  /\ applySmoothing_returned = "true"
  /\ trajectory.waypoints # unwind(caller_trajectory).waypoints
  /\ getWayPoint(trajectory, 0) = getWayPoint(caller_trajectory, 0)

\* TrackJointSmoothing's applySmoothing came through all its segments
\* without an error of the trajectory generator, and has returned
TrackJointFilteredAndReturned ==
  /\ smoother = "trackjoint"
  /\ at = "returned"
  /\ ~PreconditionViolated(caller_trajectory)
  /\ frame.error_code = "NO_ERROR"
  /\ frame.waypoint_idx = frame.num_waypoints - 1

\* C19: the low-pass filter only detects.  Whatever the number of
\* discontinuity-bound violations it counts, doIterativeLowPassFilter
\* filters every joint at every waypoint and returns success, so that
\* applySmoothing returns success with the filtered trajectory.
C19_SeamFilterOnlyDetects ==
  TrackJointFilteredAndReturned =>
    /\ applySmoothing_returned = "true"
    /\ trajectory = frame.outgoing_trajectory
    /\ doIterativeLowPassFilter(frame.limits, trajectory).returned

C19_Witness ==
  /\ TrackJointFilteredAndReturned
  /\ frame.num_failures > 0
  /\ getWayPointCount(trajectory) >= 2
  /\ applySmoothing_returned = "true"

\* C20 (as claimed): whenever applySmoothing, of RuckigSmoothing or of
\* TrackJointSmoothing, returns success on a trajectory with at least two
\* waypoints, the trajectory it leaves has at least two waypoints and every
\* duration-from-previous after the first waypoint is strictly positive,
\* whatever the number of joints of the group.
C20_Claimed_SuccessKeepsTrajectoryInvariant ==
  ( /\ at = "returned"
    /\ applySmoothing_returned = "true"
    /\ getWayPointCount(caller_trajectory) >= 2 ) =>
    /\ getWayPointCount(trajectory) >= 2
    /\ \A i \in 2..Len(trajectory.duration_from_previous) :
         trajectory.duration_from_previous[i] > 0

(***************************************************************************)
(*              Properties of the de-rating loop of RuckigSmoothing        *)
(***************************************************************************)
\* C21 (as claimed): the de-rating loop of every segment ends after a
\* bounded number of iterations, also when the previous and the next
\* waypoint are near-identical and lag is detected, so that a call of
\* RuckigSmoothing's applySmoothing that is under way always returns.
C21_Claimed_ApplySmoothingTerminates ==
  (smoother = "ruckig" /\ at # "returned") ~> (at = "returned")

\* the positions of two waypoints differ by less than
\* IDENTICAL_POSITION_EPSILON (Euclidean norm over the joints)
CloserThanEpsilon(prev_waypoint, next_waypoint) ==
  SumSeq([j \in DOMAIN prev_waypoint.position |->
            (prev_waypoint.position[j] - next_waypoint.position[j])
              * (prev_waypoint.position[j] - next_waypoint.position[j])])
    < IDENTICAL_POSITION_EPSILON * IDENTICAL_POSITION_EPSILON

\* a step of the de-rating loop on a segment with lag detected whose
\* previous and next waypoints are closer than the epsilon
MicroSegmentStep ==
  /\ RuckigDerating
  /\ frame.backward_motion_detected
  /\ CloserThanEpsilon(getWayPoint(trajectory, frame.waypoint_idx),
                       getWayPoint(trajectory, frame.waypoint_idx + 1))

\* C22 (as claimed): on a segment with lag detected whose previous and next
\* waypoints are closer than the epsilon the target velocity is not
\* de-rated, and when the segment has been processed the next waypoint
\* stored in the trajectory is the previous waypoint, not the solver's
\* output.
C22_Claimed_MicroSegmentCollapses ==
  [][ MicroSegmentStep =>
        /\ frame'.ruckig_input.target_velocity
             = frame.ruckig_input.target_velocity
        /\ (at' = "waypoints") =>
             getWayPoint(trajectory', frame.waypoint_idx + 1)
               = getWayPoint(trajectory, frame.waypoint_idx) ]_vars

(***************************************************************************)
(*            Feedback properties of the streaming smoother                *)
(***************************************************************************)
NewStateOf(output) ==
  << output.new_position, output.new_velocity, output.new_acceleration >>

\* C23 (as claimed): when the valid-seed flag is true at the start of a
\* step, the current state handed to the solver is the solver's output of
\* the immediately preceding step; when it is false, the current state
\* handed to the solver is the state set by the most recent reset, or the
\* zero state of initialize if no reset occurred.
C23_Claimed_ClosedLoopFeedback ==
  [][ \A cmd \in CallerVectors :
        doSmoothing(cmd) =>
          /\ have_initial_ruckig_output_ =>
               /\ last_call = "doSmoothing"
               /\ CurrentStateOf(ruckig_input_') = NewStateOf(ruckig_output_)
          /\ ~have_initial_ruckig_output_ =>
               CurrentStateOf(ruckig_input_') = supplied_state ]_vars

\* C24 (as claimed): the step that follows a step ended by a solver error,
\* with no reset in between, hands the solver an externally supplied state
\* as its current state (the state of the latest reset or initialize, or
\* the state the caller passes to this step), not a state the solver
\* produced earlier.
C24_Claimed_FailureRestartsFromSuppliedState ==
  [][ \A cmd \in CallerVectors :
        ( /\ last_call = "doSmoothing"
          /\ doSmoothingFailed(ruckig_result)
          /\ doSmoothing(cmd) ) =>
          \/ CurrentStateOf(ruckig_input_') = supplied_state
          \/ CurrentStateOf(ruckig_input_') = VectorsOf(cmd) ]_vars

\* C25: on every step of the streaming smoother, after any sequence of
\* initialize, reset and step calls, the input handed to the solver has a
\* zero target velocity and a zero target acceleration for every joint; of
\* the target state the step writes the target position only, which it
\* takes from the caller's positions.
C25_StepTargetsRest ==
  [][ \A cmd \in CallerVectors :
        doSmoothing(cmd) =>
          /\ ruckig_input_'.target_position = PositionsOf(cmd)
          /\ ruckig_input_'.target_velocity = ZeroVector(NumJoints)
          /\ ruckig_input_'.target_acceleration = ZeroVector(NumJoints) ]_vars

\* a step after a second initialize, with a moving current state fed back
\* and a commanded position other than zero
C25_Witness ==
  /\ last_call = "doSmoothing"
  /\ num_initialize_calls = 2
  /\ ruckig_input_.target_position # ZeroVector(NumJoints)
  /\ ruckig_input_.current_velocity # ZeroVector(NumJoints)
  /\ ruckig_input_.target_velocity = ZeroVector(NumJoints)
  /\ ruckig_input_.target_acceleration = ZeroVector(NumJoints)

(***************************************************************************)
(*              Properties of the passes of RuckigSmoothing                *)
(***************************************************************************)
StateOf(waypoint) ==
  << waypoint.position, waypoint.velocity, waypoint.acceleration >>

\* the de-rating loop of the segment has ended and the waypoint is written
SegmentWritten == RuckigDerating /\ at' = "waypoints"

\* the first solve of the segment at frame.waypoint_idx
SegmentFirstSolve == RuckigWaypoints /\ at' = "derating"

\* C26: the state written into waypoint i+1 at the end of segment i is the
\* solver's last output for the segment, and the current state given to the
\* solver on the first solve of a segment is the state of the waypoint the
\* segment starts from: the state written by the segment before, or for
\* segment 0 the state of the first waypoint.
C26_SegmentsAreChained ==
  [][ /\ SegmentWritten =>
           StateOf(getWayPoint(trajectory', frame.waypoint_idx + 1))
             = NewStateOf(frame.ruckig_output)
      /\ SegmentFirstSolve =>
           /\ CurrentStateOf(frame'.ruckig_input)
                = StateOf(getWayPoint(trajectory, frame.waypoint_idx))
           /\ (frame.waypoint_idx = 0) =>
                CurrentStateOf(frame'.ruckig_input)
                  = StateOf(getWayPoint(unwind(caller_trajectory), 0))
    ]_vars

\* in a pass after the first, the first solve of a later segment starts from
\* a waypoint that the segment before has rewritten
C26_Witness ==
  /\ smoother = "ruckig"
  /\ at = "derating"
  /\ passes >= 2
  /\ frame.waypoint_idx >= 1
  /\ CurrentStateOf(frame.ruckig_input)
       = StateOf(getWayPoint(trajectory, frame.waypoint_idx))
  /\ getWayPoint(trajectory, frame.waypoint_idx)
       # getWayPoint(unwind(caller_trajectory), frame.waypoint_idx)

\* the retry loop starts a pass
AttemptBegins == RuckigAttempts /\ at' = "waypoints"

\* C27: every attempt starts from scratch.  When a pass begins, the
\* waypoint states of the trajectory are those of the copy saved before the
\* first pass, and the solver's current state and its last output are the
\* state of the first waypoint; and the target velocity of the first solve
\* of every segment is the velocity of the restored waypoint, so that no
\* de-rated velocity of an earlier attempt carries over.
C27_AttemptStartsFromScratch ==
  [][ /\ AttemptBegins =>
           /\ trajectory'.waypoints = frame'.original_trajectory_copy.waypoints
           /\ CurrentStateOf(frame'.ruckig_input)
                = StateOf(getWayPoint(trajectory', 0))
           /\ NewStateOf(frame'.ruckig_output)
                = StateOf(getWayPoint(trajectory', 0))
      /\ SegmentFirstSolve =>
           frame'.ruckig_input.target_velocity
             = getWayPoint(frame.original_trajectory_copy,
                           frame.waypoint_idx + 1).velocity
    ]_vars

\* a pass after the first has begun; the solver input still shows the
\* de-rated target velocity of the pass before
C27_Witness ==
  /\ smoother = "ruckig"
  /\ at = "waypoints"
  /\ frame.waypoint_idx = 0
  /\ passes >= 2
  /\ frame.ruckig_input.target_velocity
       # getWayPoint(frame.original_trajectory_copy,
                     frame.num_waypoints - 1).velocity
  /\ trajectory.waypoints = frame.original_trajectory_copy.waypoints
  /\ NewStateOf(frame.ruckig_output) = StateOf(getWayPoint(trajectory, 0))

\* an iteration of the de-rating loop that scales the target velocity and
\* solves again (lines 150-164)
DeratingIteration ==
  /\ RuckigDerating
  /\ at' = "derating"
  /\ frame'.ruckig_input # frame.ruckig_input

\* C28: a de-rating iteration multiplies the target velocity of every joint
\* by 0.9, sets its target acceleration to (scaled target velocity - last
\* output velocity of the solver) / timestep and leaves its target position
\* alone; throughout a segment the target position is the position of the
\* waypoint the segment was given, and the norm of the target velocity never
\* grows.
C28_DeratingKeepsTargetPosition ==
  [][ /\ DeratingIteration =>
           \A j \in DOMAIN frame.ruckig_input.target_velocity :
             /\ 10 * frame'.ruckig_input.target_velocity[j]
                  = 9 * frame.ruckig_input.target_velocity[j]
             /\ frame'.ruckig_input.target_acceleration[j]
                  = ( ( frame'.ruckig_input.target_velocity[j]
                          - frame.ruckig_output.new_velocity[j] ) * 1000 )
                      \div frame.timestep
      /\ SegmentFirstSolve =>
           frame'.ruckig_input.target_position
             = getWayPoint(trajectory, frame.waypoint_idx + 1).position
      /\ RuckigDerating =>
           /\ frame'.ruckig_input.target_position
                = frame.ruckig_input.target_position
           /\ getTargetVelocityMagnitudeSquared(frame'.ruckig_input)
                <= getTargetVelocityMagnitudeSquared(frame.ruckig_input)
    ]_vars

\* the target velocity of a segment has been de-rated twice and the target
\* position is still the position the segment's waypoint had
C28_Witness ==
  /\ smoother = "ruckig"
  /\ at = "derating"
  /\ frame.ruckig_input.target_velocity[1] # 0
  /\ 100 * frame.ruckig_input.target_velocity[1]
       = 81 * getWayPoint(frame.original_trajectory_copy,
                          frame.waypoint_idx + 1).velocity[1]
  /\ frame.ruckig_input.target_position
       = getWayPoint(frame.original_trajectory_copy,
                     frame.waypoint_idx + 1).position

MinimumVelocityMagnitudeSquared ==
  minimum_velocity_magnitude * minimum_velocity_magnitude

\* C29: a de-rating iteration (scale and solve again) is executed only when
\* lag is detected and the norm of the target velocity is strictly above
\* 0.01; on a segment whose target velocity norm is at or below 0.01 the
\* de-rating loop does nothing, lag or no lag: the waypoint is written from
\* the one solve the segment had, and the solver is not run again.
C29_DeratingStopsAtFloor ==
  [][ /\ DeratingIteration =>
           /\ frame.backward_motion_detected
           /\ getTargetVelocityMagnitudeSquared(frame.ruckig_input)
                > MinimumVelocityMagnitudeSquared
      /\ ( /\ RuckigDerating
           /\ getTargetVelocityMagnitudeSquared(frame.ruckig_input)
                <= MinimumVelocityMagnitudeSquared ) =>
           /\ at' = "waypoints"
           /\ frame'.ruckig_input = frame.ruckig_input
           /\ frame'.ruckig_output = frame.ruckig_output
           /\ frame'.ruckig_result = frame.ruckig_result
    ]_vars

\* a segment whose target velocity norm is exactly 0.01 has been written
\* with lag detected, rclcpp::ok() true and its target velocity not de-rated
C29_Witness ==
  /\ smoother = "ruckig"
  /\ at = "waypoints"
  /\ rclcpp_ok
  /\ frame.waypoint_idx >= 1
  /\ frame.backward_motion_detected
  /\ getTargetVelocityMagnitudeSquared(frame.ruckig_input)
       = MinimumVelocityMagnitudeSquared
  /\ frame.ruckig_input.target_velocity
       = getWayPoint(frame.original_trajectory_copy,
                     frame.waypoint_idx).velocity

\* new_velocity / target_velocity < 1 for a target velocity other than zero
RatioBelowOne(new_velocity, target_velocity) ==
  \/ target_velocity > 0 /\ new_velocity < target_velocity
  \/ target_velocity < 0 /\ new_velocity > target_velocity

\* C30 (as claimed): checkForLaggingMotion reports lag exactly when some
\* joint with a target velocity other than zero has new velocity / target
\* velocity < 1; a joint whose target velocity is zero never makes it report
\* lag, whatever its new velocity.
C30_Claimed_ZeroTargetNeverLags ==
  (smoother = "ruckig" /\ at = "derating") =>
    ( checkForLaggingMotion(frame.ruckig_input, frame.ruckig_output)
        <=> \E j \in DOMAIN frame.ruckig_input.target_velocity :
              /\ frame.ruckig_input.target_velocity[j] # 0
              /\ RatioBelowOne(frame.ruckig_output.new_velocity[j],
                               frame.ruckig_input.target_velocity[j]) )

(***************************************************************************)
(*              Properties of the batch smoothers, continued               *)
(***************************************************************************)
\* the call of RuckigSmoothing::applySmoothing got past its preconditions
RuckigUnderWay ==
  /\ smoother = "ruckig"
  /\ ~PreconditionViolated(caller_trajectory)

\* the limit of a joint that the scaling factors (in percent) and the robot
\* model's bounds call for, in hundredths
ScaledLimit(scaling_factor, bounded, bound, default) ==
  scaling_factor * (IF bounded THEN bound ELSE default)

\* C31: RuckigSmoothing::applySmoothing computes the limits of each joint
\* before the first pass and neither de-rating nor a retry changes them: at
\* every point of the call the jerk limit is DEFAULT_MAX_JERK, the velocity
\* limit is the velocity scaling factor times the model's bound (the default
\* 5 without a bound), the acceleration limit is the acceleration scaling
\* factor times the model's bound (the default 10 without a bound).
C31_LimitsComputedOnce ==
  RuckigUnderWay =>
    \A j \in DOMAIN frame.ruckig_input.max_jerk :
      /\ frame.ruckig_input.max_jerk[j] = DEFAULT_MAX_JERK
      /\ frame.ruckig_input.max_velocity[j] =
           ScaledLimit(frame.max_velocity_scaling_factor,
                       frame.rmodel[j].velocity_bounded_,
                       frame.rmodel[j].max_velocity_, DEFAULT_MAX_VELOCITY)
      /\ frame.ruckig_input.max_acceleration[j] =
           ScaledLimit(frame.max_acceleration_scaling_factor,
                       frame.rmodel[j].acceleration_bounded_,
                       frame.rmodel[j].max_acceleration_,
                       DEFAULT_MAX_ACCELERATION)

\* a second pass, after a de-rating step, for a group with a joint the model
\* has no bounds for and a joint it bounds
C31_Witness ==
  /\ RuckigUnderWay
  /\ at = "derating"
  /\ passes >= 2
  /\ frame.ruckig_input.target_velocity #
       getWayPoint(frame.original_trajectory_copy,
                   frame.waypoint_idx + 1).velocity
  /\ ~frame.rmodel[1].velocity_bounded_
  /\ Len(frame.ruckig_input.max_jerk) >= 2
  /\ frame.rmodel[2].acceleration_bounded_

(***************************************************************************)
(*        Properties of the low-pass filter of TrackJointSmoothing         *)
(***************************************************************************)
\* v_limit * dt + 1/2 * a_limit * dt^2 + 1/6 * j_limit * dt^3 for the fixed
\* step dt of 0.001 s, in 1e-8 rad and rounded down
ThirdOrderBound(limit) ==
  1000 * limit.velocity_limit + (30 * limit.acceleration_limit
                                   + limit.jerk_limit) \div 60

\* the (joint, waypoint) pairs of trajectory t, waypoints counted from 0,
\* at which the position is further from the position at the previous
\* waypoint than the joint's bound
BoundViolations(t, limits) ==
  { jw \in (DOMAIN limits) \X (1..(Len(t.waypoints) - 1)) :
      fabs(getWayPoint(t, jw[2]).position[jw[1]]
             - getWayPoint(t, jw[2] - 1).position[jw[1]]) * 100000
        > ThirdOrderBound(limits[jw[1]]) }

\* C32: in one pass of doIterativeLowPassFilter the failure counter is
\* incremented once for each pair of a joint and a waypoint from index 1 on
\* whose filtered position is further from the already filtered position of
\* the previous waypoint than the joint's third-order bound, and never
\* otherwise: the count it ends with is the number of these pairs.
C32_FailuresCountBoundViolations ==
  [][ TrackJointLowPass =>
        frame'.num_failures =
          Cardinality(BoundViolations(frame'.outgoing_trajectory,
                                      frame.limits)) ]_vars

\* the filter has run on three waypoints and has counted both waypoints
\* after the first for a joint
C32_Witness ==
  /\ TrackJointFilteredAndReturned
  /\ getWayPointCount(frame.outgoing_trajectory) >= 3
  /\ frame.num_failures
       = Cardinality(BoundViolations(frame.outgoing_trajectory, frame.limits))
  /\ \E j \in DOMAIN frame.limits :
       /\ << j, 1 >> \in BoundViolations(frame.outgoing_trajectory, frame.limits)
       /\ << j, 2 >> \in BoundViolations(frame.outgoing_trajectory, frame.limits)

\* C33: doIterativeLowPassFilter changes positions of waypoints from index 1
\* on and nothing else.  The number of waypoints, every duration from the
\* previous waypoint, every velocity and acceleration and the position of
\* waypoint 0 are after the pass what they were before it, and the position
\* of each joint at each waypoint from index 1 on is written exactly once,
\* for each joint in increasing order of the waypoints.
C33_FilterChangesPositionsOnly ==
  [][ TrackJointLowPass =>
        LET before == frame.outgoing_trajectory
            after == frame'.outgoing_trajectory
            writes == doIterativeLowPassFilter(frame.limits, before)
                        .position_writes
            n == getWayPointCount(before)
        IN  /\ getWayPointCount(after) = n
            /\ after.duration_from_previous = before.duration_from_previous
            /\ after.group = before.group
            /\ \A i \in 0..(n - 1) :
                 /\ getWayPoint(after, i).velocity
                      = getWayPoint(before, i).velocity
                 /\ getWayPoint(after, i).acceleration
                      = getWayPoint(before, i).acceleration
            /\ getWayPoint(after, 0).position = getWayPoint(before, 0).position
            /\ \A k \in DOMAIN writes : writes[k][2] >= 1
            /\ \A j \in DOMAIN frame.limits, i \in 1..(n - 1) :
                 Cardinality({ k \in DOMAIN writes : writes[k] = << j, i >> })
                   = 1
            /\ \A k1, k2 \in DOMAIN writes :
                 (k1 < k2 /\ writes[k1][1] = writes[k2][1]) =>
                   writes[k1][2] < writes[k2][2] ]_vars

\* the filter has run on three waypoints: it has left a position at waypoint
\* 1 that is not one the trajectory generator gave, and a velocity there
\* that is not zero
C33_Witness ==
  /\ TrackJointFilteredAndReturned
  /\ getWayPointCount(frame.outgoing_trajectory) >= 3
  /\ LET reference == unwind(caller_trajectory)
         from == getWayPoint(reference, 0).position
         to == getWayPoint(reference, 1).position
         filtered == getWayPoint(frame.outgoing_trajectory, 1)
     IN  \E j \in DOMAIN filtered.position :
           /\ filtered.position[j] \notin { to[j], (from[j] + to[j]) \div 2 }
           /\ filtered.velocity[j] # 0

\* raw positions another joint could have had instead, in 1e-3 rad
OtherPositions == { 0, 5000 }

\* trajectory t with the position of joint k at waypoint i (from 0) set to p
WithPosition(t, k, i, p) ==
  [ t EXCEPT !.waypoints[i + 1].position[k] = p ]

\* the positions of joint j along trajectory t
PositionsOfJoint(t, j) ==
  [ i \in 1..Len(t.waypoints) |-> t.waypoints[i].position[j] ]

\* C34: doIterativeLowPassFilter treats the joints independently.  The
\* filter of a joint is created for that joint and seeded with the joint's
\* position at the first waypoint, so the filtered positions of a joint j,
\* and the waypoints at which it exceeds its bound, are the same whatever
\* raw position another joint k has at any waypoint.
C34_FilterTreatsJointsIndependently ==
  [][ TrackJointLowPass =>
        LET before == frame.outgoing_trajectory
            after == frame'.outgoing_trajectory
            dofs == DOMAIN frame.limits
        IN  \A j \in dofs : \A k \in dofs \ {j},
               i \in 0..(getWayPointCount(before) - 1),
               p \in OtherPositions :
              LET other == doIterativeLowPassFilter(
                             frame.limits, WithPosition(before, k, i, p))
                             .trajectory
              IN  /\ PositionsOfJoint(other, j) = PositionsOfJoint(after, j)
                  /\ { jw \in BoundViolations(other, frame.limits) :
                         jw[1] = j }
                       = { jw \in BoundViolations(after, frame.limits) :
                             jw[1] = j } ]_vars

\* the filter has run on three waypoints of two joints whose positions
\* differ, and has counted discontinuities
C34_Witness ==
  /\ TrackJointFilteredAndReturned
  /\ getWayPointCount(frame.outgoing_trajectory) >= 3
  /\ PositionsOfJoint(frame.outgoing_trajectory, 1)
       # PositionsOfJoint(frame.outgoing_trajectory, 2)
  /\ frame.num_failures > 0

(***************************************************************************)
(*          Properties of the streaming smoother, continued                *)
(***************************************************************************)
\* C35: after any sequence of calls of initialize, reset and doSmoothing,
\* one at a time, have_initial_ruckig_output_ is true exactly when the most
\* recent call was a doSmoothing whose solver status was Finished, Working
\* or ErrorSynchronizationCalculation.
C35_FlagTellsLastStepUsable ==
  have_initial_ruckig_output_
    <=> (last_call = "doSmoothing" /\ ruckig_result \in UsableStatuses)

\* a reset after a usable step: the last solver status is usable, the most
\* recent call is not a step, and the flag is false
C35_Witness ==
  /\ last_call = "reset"
  /\ ruckig_result = "Working"
  /\ last_usable_output # << >>
  /\ ~have_initial_ruckig_output_

\* C36 (as claimed): after any sequence of calls of initialize on the same
\* object, a second call included, joint_velocity_bounds_,
\* joint_acceleration_bounds_ and joint_jerk_bounds_ each hold exactly
\* num_joints_ entries, so that the assertion at the end of
\* getVelAccelJerkBounds holds on every call.
C36_Claimed_BoundVectorsKeepLength ==
  (num_initialize_calls >= 1 /\ pc # "exited") =>
    /\ pc # "aborted"
    /\ Len(joint_velocity_bounds_) = num_joints_
    /\ Len(joint_acceleration_bounds_) = num_joints_
    /\ Len(joint_jerk_bounds_) = num_joints_

(***************************************************************************)
(*             Properties of the retries of RuckigSmoothing                *)
(***************************************************************************)
\* a pass over the segments is about to begin
PassBegins ==
  /\ RuckigUnderWay
  /\ at = "waypoints"
  /\ frame.waypoint_idx = 0

\* C37 (as claimed): the passes of RuckigSmoothing's applySmoothing hand the
\* solver the same problem.  Every pass begins with the time step taken from
\* the trajectory handed in, the start state of its first waypoint and the
\* waypoints of the trajectory handed in as targets; hence, with a
\* deterministic solver, every pass ends with the status the pass before it
\* ended with, and applySmoothing returns success exactly when its first
\* pass ended successfully.
C37_Claimed_RetriesRepeatFirstPass ==
  /\ PassBegins =>
       /\ frame.timestep = getAverageSegmentDuration(unwind(caller_trajectory))
       /\ trajectory.waypoints = unwind(caller_trajectory).waypoints
       /\ StateOf(getWayPoint(trajectory, 0))
            = << frame.ruckig_input.current_position,
                 frame.ruckig_input.current_velocity,
                 frame.ruckig_input.current_acceleration >>
  /\ RuckigUnderWay =>
       \A k \in 1..(Len(solver_history.final_status) - 1) :
         solver_history.final_status[k + 1] = solver_history.final_status[k]
  /\ (RuckigUnderWay /\ at = "returned") =>
       ( applySmoothing_returned = "true"
           <=> /\ solver_history.final_status # << >>
               /\ solver_history.final_status[1] = "Working" )

\* C38 (as claimed): whenever the status test that ends RuckigSmoothing's
\* applySmoothing (line 199) is reached, the solver has been run at least
\* once during the call and its status has been assigned to ruckig_result,
\* also when rclcpp::ok() is false on entry to the retry loop.
C38_Claimed_FinalStatusComesFromSolver ==
  (smoother = "ruckig" /\ at = "final") =>
    /\ solver_invoked
    /\ frame.ruckig_result \in Results

(***************************************************************************)
(*          Properties of the segments of TrackJointSmoothing              *)
(***************************************************************************)
\* sample s (from 0) of the generator's output, as a waypoint
SampleOf(trackjoint_output, s) ==
  RobotState([j \in DOMAIN trackjoint_output |->
                trackjoint_output[j].positions[s + 1]],
             [j \in DOMAIN trackjoint_output |->
                trackjoint_output[j].velocities[s + 1]],
             [j \in DOMAIN trackjoint_output |->
                trackjoint_output[j].accelerations[s + 1]])

\* C39 (as claimed): the output of the trajectory generator for a segment is
\* transferred in full.  Of the S samples it generated for each joint, the
\* samples 1 to S - 1 are appended in order to the outgoing trajectory, each
\* with a duration of 0.001 s, whatever the number of joints: the segment
\* adds S - 1 waypoints.
C39_Claimed_SegmentOutputFullyTransferred ==
  [][ (TrackJointSegment /\ frame'.waypoint_idx = frame.waypoint_idx + 1) =>
        \E trackjoint_output \in
             generateTrajectories(
               frame.current_joint_states,
               setTrackJointState(frame.waypoint_idx + 1, trajectory)) :
          LET S == Len(trackjoint_output[1].positions)
              before == getWayPointCount(frame.outgoing_trajectory)
              after == frame'.outgoing_trajectory
          IN  /\ getWayPointCount(after) = before + S - 1
              /\ \A s \in 1..(S - 1) :
                   /\ getWayPoint(after, before + s - 1)
                        = SampleOf(trackjoint_output, s)
                   /\ getWayPointDurationFromPrevious(after, before + s - 1)
                        = DEFAULT_TRACKJOINT_TIMESTEP ]_vars

=============================================================================
